---- MODULE Spec2Model ----
(***************************************************************************)
(* A model of the Blackjack CLI: the hand evaluator (Participant), the     *)
(* dealer rule (Dealer), the shoe (DeckManager), the round engine          *)
(* (GameEngine) and the game loop (App.run).                               *)
(*                                                                         *)
(* Money is held in half units (2 = one whole currency unit), so that the  *)
(* 3:2 blackjack payout  bet + bet * 1.5  of a whole-number bet is an      *)
(* integer.  A card is modelled by its rank: suit and code are never read  *)
(* by the game logic.                                                      *)
(***************************************************************************)
EXTENDS Integers, Sequences, FiniteSets, TLC

(***************************************************************************)
(* Bounds of the model.                                                    *)
(***************************************************************************)
\* how many of the 13 ranks the card source deals in the game loop
NumRanks == 2
\* longest hand built in the hand specification (all 13 ranks)
MaxHandLen == 4
\* number of cards the source reports for a fresh or reshuffled shoe
ShoeSize == 6
\* largest whole-number bet the player types, besides betting the whole balance
MaxBet == 1
\* the player goes on playing only while the balance is at most this (half units)
MaxBalance == 4
\* largest balance (half units) a returning player is loaded with
MaxStoredBalance == 2
\* largest whole-number deposit the player types
MaxDeposit == 1
\* longest hand on the table when the outcome of a round is evaluated
MaxTableHand == 3
\* how many of the 13 ranks those hands are made of
NumTableRanks == 3
\* the saves that can be on their way to storage together
MaxInFlight == 2

(***************************************************************************)
(* Program constants.                                                      *)
(***************************************************************************)
\* half units per whole currency unit
Unit == 2
STARTING_BALANCE == 100
MAX_DEPOSIT_AMOUNT == 100000

NULL == "null"

(***************************************************************************)
(* types/Card.ts                                                           *)
(***************************************************************************)
CardRank == {"2", "3", "4", "5", "6", "7", "8", "9", "10", "J", "Q", "K", "A"}

\* parseInt on the ranks '2'..'10'
parseInt(rank) ==
  CASE rank = "2" -> 2 [] rank = "3" -> 3 [] rank = "4" -> 4 [] rank = "5" -> 5
    [] rank = "6" -> 6 [] rank = "7" -> 7 [] rank = "8" -> 8 [] rank = "9" -> 9
    [] rank = "10" -> 10

getCardValue(card) ==
  IF card = "A" THEN 11
  ELSE IF card \in {"J", "Q", "K"} THEN 10
  ELSE parseInt(card)

(***************************************************************************)
(* shared/Participant.ts                                                   *)
(***************************************************************************)
\* first pass of getCardTotal: count the aces, sum the other cards
RECURSIVE FirstPass(_, _, _, _)
FirstPass(cards, k, numberOfAces, totalValue) ==
  IF k > Len(cards) THEN [numberOfAces |-> numberOfAces, totalValue |-> totalValue]
  ELSE IF cards[k] = "A"
       THEN FirstPass(cards, k + 1, numberOfAces + 1, totalValue)
       ELSE FirstPass(cards, k + 1, numberOfAces, totalValue + getCardValue(cards[k]))

\* a second pass in which the last ace counts 11 only below 21
RECURSIVE SecondPass_StrictBound(_, _, _)
SecondPass_StrictBound(i, totalValue, hasSoftAce) ==
  IF i < 0 THEN [value |-> totalValue, hasSoftAce |-> hasSoftAce]
  ELSE IF i = 0 /\ totalValue + 11 < 21
       THEN SecondPass_StrictBound(i - 1, totalValue + 11, TRUE)
       ELSE SecondPass_StrictBound(i - 1, totalValue + 1, hasSoftAce)

\* a second pass that forgets to raise hasSoftAce
RECURSIVE SecondPass_NoFlag(_, _, _)
SecondPass_NoFlag(i, totalValue, hasSoftAce) ==
  IF i < 0 THEN [value |-> totalValue, hasSoftAce |-> hasSoftAce]
  ELSE IF i = 0 /\ totalValue + 11 <= 21
       THEN SecondPass_NoFlag(i - 1, totalValue + 11, hasSoftAce)
       ELSE SecondPass_NoFlag(i - 1, totalValue + 1, hasSoftAce)

\* second pass of getCardTotal: for (i = numberOfAces - 1; i >= 0; i--)
RECURSIVE SecondPass(_, _, _)
SecondPass(i, totalValue, hasSoftAce) ==
  IF i < 0 THEN [value |-> totalValue, hasSoftAce |-> hasSoftAce]
  ELSE IF i = 0 /\ totalValue + 11 <= 21
       THEN SecondPass(i - 1, totalValue + 11, TRUE)
       ELSE SecondPass(i - 1, totalValue + 1, hasSoftAce)

\* one pass in which each ace counts 11 if that fits the total of the cards before it
RECURSIVE InOrderPass(_, _, _, _)
InOrderPass(cards, k, totalValue, hasSoftAce) ==
  IF k > Len(cards) THEN [value |-> totalValue, hasSoftAce |-> hasSoftAce]
  ELSE IF cards[k] = "A" /\ totalValue + 11 <= 21
       THEN InOrderPass(cards, k + 1, totalValue + 11, TRUE)
       ELSE IF cards[k] = "A"
       THEN InOrderPass(cards, k + 1, totalValue + 1, hasSoftAce)
       ELSE InOrderPass(cards, k + 1, totalValue + getCardValue(cards[k]), hasSoftAce)

\* a total that depends on where the aces lie in the hand
getCardTotal_InOrder(cards) == InOrderPass(cards, 1, 0, FALSE)

getCardTotal(cards) ==
  LET first == FirstPass(cards, 1, 0, 0)
  IN  SecondPass(first.numberOfAces - 1, first.totalValue, FALSE)

hasBlackjack_AnyLength(cards) == getCardTotal(cards).value = 21

hasBlackjack(cards) == Len(cards) = 2 /\ getCardTotal(cards).value = 21

(***************************************************************************)
(* game/Dealer.ts                                                          *)
(***************************************************************************)
\* an upcard that is the card dealt last
getUpcard_LastCard(cards) == IF Len(cards) > 0 THEN cards[Len(cards)] ELSE NULL

getUpcard(cards) == IF Len(cards) > 0 THEN cards[1] ELSE NULL

shouldHit_StandOnSoft17(cards) == getCardTotal(cards).value < 17

shouldHit(cards) ==
  LET total == getCardTotal(cards)
  IN  total.value < 17 \/ (total.value = 17 /\ total.hasSoftAce)

(***************************************************************************)
(* State.                                                                  *)
(***************************************************************************)
VARIABLES
  gameState,    \* App.gameState
  proc,         \* the process: "running", "returned" (run returned), "exited" (process.exit(1))
  playerCards,  \* Player.cards
  dealerCards,  \* Dealer.cards
  balance,      \* Player.balance (half units)
  bet,          \* Player.bet (half units)
  outcome,      \* GameEngine.outcome
  winnings,     \* GameEngine.winnings (half units), NoWinnings for null
  deckManager,  \* GameEngine.deckManager: NoDeckManager or a DeckManager record
  source,       \* cards left in the card source's shoe
  thrown,       \* error chain thrown by the last engine operation, outermost first; << >> if none
  reported,     \* error chain handleError printed before process.exit(1)
  awaiting,     \* where the flow is suspended: "none", "playThroughDealer", "promptPlayAgain"
  store,        \* the save on its way to storage and the rejection nobody handled
  returned,     \* cards the last DeckManager call handed to its caller
  printed,      \* the result line App printed for the round at ROUND_END
  pending       \* the number of card-source requests sent and not yet answered

vars == <<gameState, proc, playerCards, dealerCards, balance, bet, outcome,
          winnings, deckManager, source, thrown, reported, awaiting, store, returned,
          printed, pending>>

(***************************************************************************)
(* The card source (api/DeckOfCardsApiClient.ts and the service behind it).*)
(***************************************************************************)
RankOrder == <<"A", "K", "5", "6", "9", "2", "3", "4", "7", "8", "10", "J", "Q">>

\* the ranks the source deals in the game loop
DealtRanks == {RankOrder[i] : i \in 1..NumRanks}

\* the service answers with the cards asked for, or with one card less
DeliveredCounts(count) == {k \in {count - 1, count} : k >= 0}

ApiFailed == "API failed"

\* responses to createDeck: failure, or a fresh shoe
CreateResponses ==
  {[success |-> FALSE, remaining |-> 0], [success |-> TRUE, remaining |-> ShoeSize]}

\* responses to drawCard(deckId, count) from a shoe holding `left` cards
DrawResponses(count, left) ==
  {[success |-> FALSE, cards |-> << >>, remaining |-> left]} \cup
  {[success |-> TRUE, cards |-> cs, remaining |-> left - Len(cs)] :
     cs \in UNION {[1..k -> DealtRanks] : k \in {n \in DeliveredCounts(count) : n <= left /\ count <= left}}}

\* responses to reshuffleDeck: failure, or the full shoe again
ReshuffleResponses ==
  {[success |-> FALSE, remaining |-> 0], [success |-> TRUE, remaining |-> ShoeSize]}

(***************************************************************************)
(* game/DeckManager.ts                                                     *)
(***************************************************************************)
\* 1 - CUT_CARD_PERCENTAGE in doubles is 0.22499999999999998, not 0.225: at these
\* counts (all there are up to 8 decks of 52) remaining * 0.225 is a whole number and
\* a half, and the double product is just below it
ProductBelowHalf == {60, 100, 140, 180, 220, 260, 340, 380}

\* a cut card put at a hundredth of the shoe
cutCardPositionFor_Hundredth(remaining) == remaining \div 100

\* Math.round(remaining * (1 - CUT_CARD_PERCENTAGE)) with CUT_CARD_PERCENTAGE = 0.775,
\* as doubles compute it for up to 8 decks: Math.round of the double
\* product, which is the exact rounding except where the product falls below the half
cutCardPositionFor(remaining) ==
  IF remaining \in ProductBelowHalf
  THEN (remaining * 225 + 500) \div 1000 - 1
  ELSE (remaining * 225 + 500) \div 1000

\* GameEngine.deckManager before initialize (null)
NoDeckManager == [exists |-> FALSE, remaining |-> 0, cutCardPosition |-> 0]

DeckManager_new(remaining) ==
  [exists |-> TRUE, remaining |-> remaining,
   cutCardPosition |-> cutCardPositionFor(remaining)]

\* DeckManager.setup: [err, dm]
DeckManager_setup(resp) ==
  IF ~resp.success
  THEN [err |-> <<"Failed to setup deck manager",
                  "Error creating new deck of shuffled cards api endpoint", ApiFailed>>,
        dm |-> NoDeckManager]
  ELSE [err |-> << >>, dm |-> DeckManager_new(resp.remaining)]

\* a drawCard that updates remaining before it counts the cards
DeckManager_drawCard_CountsAfterUpdate(dm, resp) ==
  IF ~resp.success
  THEN [err |-> <<"Failed to draw card", "Error with drawing card(s) endpoint", ApiFailed>>,
        card |-> NULL, dm |-> dm]
  ELSE IF Len(resp.cards) # 1
  THEN [err |-> <<"Failed to draw card", "Wrong number of cards drawn">>,
        card |-> NULL, dm |-> [dm EXCEPT !.remaining = resp.remaining]]
  ELSE [err |-> << >>, card |-> resp.cards[1],
        dm |-> [dm EXCEPT !.remaining = resp.remaining]]

\* DeckManager.drawCard: [err, card, dm]
DeckManager_drawCard(dm, resp) ==
  IF ~resp.success
  THEN [err |-> <<"Failed to draw card", "Error with drawing card(s) endpoint", ApiFailed>>,
        card |-> NULL, dm |-> dm]
  ELSE IF Len(resp.cards) # 1
  THEN [err |-> <<"Failed to draw card", "Wrong number of cards drawn">>,
        card |-> NULL, dm |-> dm]
  ELSE [err |-> << >>, card |-> resp.cards[1],
        dm |-> [dm EXCEPT !.remaining = resp.remaining]]

\* a drawCards that works out remaining from the number of cards asked for
DeckManager_drawCards_CountsDown(dm, resp) ==
  IF ~resp.success
  THEN [err |-> <<"Failed to draw cards from deck", "Error with drawing card(s) endpoint",
                  ApiFailed>>,
        cards |-> << >>, dm |-> dm]
  ELSE [err |-> << >>, cards |-> resp.cards,
        dm |-> [dm EXCEPT !.remaining = IF dm.remaining >= Len(resp.cards)
                                         THEN dm.remaining - Len(resp.cards) ELSE 0]]

\* DeckManager.drawCards: [err, cards, dm]
DeckManager_drawCards(dm, resp) ==
  IF ~resp.success
  THEN [err |-> <<"Failed to draw cards from deck", "Error with drawing card(s) endpoint",
                  ApiFailed>>,
        cards |-> << >>, dm |-> dm]
  ELSE [err |-> << >>, cards |-> resp.cards,
        dm |-> [dm EXCEPT !.remaining = resp.remaining]]

\* DeckManager.reshuffle: [err, dm]
DeckManager_reshuffle(dm, resp) ==
  IF ~resp.success
  THEN [err |-> <<"Failed to reshuffle deck", "Error with reshuffling deck api endpoint",
                  ApiFailed>>,
        dm |-> dm]
  ELSE [err |-> << >>, dm |-> [dm EXCEPT !.remaining = resp.remaining]]

\* a shoe reshuffled already when the cut card itself is reached
shouldReshuffle_AtCutCard(dm) == dm.remaining <= dm.cutCardPosition

shouldReshuffle(dm) == dm.remaining < dm.cutCardPosition

\* what a draw or reshuffle leaves in the source's shoe
SourceAfterDraw(resp) == IF resp.success THEN source - Len(resp.cards) ELSE source
SourceAfterReshuffle(resp) == IF resp.success THEN resp.remaining ELSE source

(***************************************************************************)
(* player/Player.ts and player/storage: saving the balance.                *)
(***************************************************************************)
\* no save is on its way to storage
NoSave == -1

\* a store that follows the saves also keeps the balance storage holds for the player
\* (saved) and every save on its way in the order of the calls (inFlight)
StoreHolding(bal) ==
  [issued |-> NoSave, unhandled |-> << >>, inFlight |-> << >>, saved |-> bal]

StorageFailed == "storage failure"

\* Player.save up to its await: the data { username, balance } is built from the
\* balance at the call and handed to storage.save
Player_save(st, bal) ==
  IF "inFlight" \in DOMAIN st
  THEN [st EXCEPT !.issued = bal, !.inFlight = Append(@, bal)]
  ELSE [st EXCEPT !.issued = bal]

\* the save on its way settles: storage.save resolves after the put, or rejects and
\* Player.save rejects with 'Error saving player'; no caller of applyPayout holds the
\* promise, so the rejection is handled by nobody
Player_saveSettles(st, ok) ==
  IF ok THEN [st EXCEPT !.issued = NoSave]
  ELSE [st EXCEPT !.issued = NoSave,
                  !.unhandled = <<"Error saving player", StorageFailed>>]

(***************************************************************************)
(* game/GameEngine.ts                                                      *)
(***************************************************************************)
PlayerWon == "player_won"
DealerWon == "dealer_won"
Push == "push"
PlayerWonWithBlackjack == "player_won_blackjack"
DealerWonWithBlackjack == "dealer_won_blackjack"
Outcome == {PlayerWon, DealerWon, Push, PlayerWonWithBlackjack, DealerWonWithBlackjack}

Busted == "busted"
Has_21 == "has_21"
Active == "active"

\* GameEngine.winnings = null
NoWinnings == -1

DeckManagerUndefined == <<"Deck Manager undefined">>

\* GameEngine.initialize
initialize(resp) ==
  LET r == DeckManager_setup(resp)
  IN  /\ deckManager' = IF r.err = << >> THEN r.dm ELSE deckManager
      /\ source' = IF resp.success THEN resp.remaining ELSE source
      /\ thrown' = IF r.err = << >> THEN << >>
                   ELSE <<"Failed to initialize game engine">> \o r.err
      /\ UNCHANGED <<playerCards, dealerCards, balance, bet, outcome, winnings, store>>

\* GameEngine.drawCard: [err, card, dm]
drawCard(resp) ==
  IF ~deckManager.exists
  THEN [err |-> DeckManagerUndefined, card |-> NULL, dm |-> deckManager]
  ELSE LET r == DeckManager_drawCard(deckManager, resp)
       IN  IF r.err # << >>
           THEN [err |-> <<"Failed to draw card">> \o r.err, card |-> NULL, dm |-> r.dm]
           ELSE r

\* GameEngine.drawCards: [err, cards, dm]
drawCards(resp) ==
  IF ~deckManager.exists
  THEN [err |-> DeckManagerUndefined, cards |-> << >>, dm |-> deckManager]
  ELSE LET r == DeckManager_drawCards(deckManager, resp)
       IN  IF r.err # << >>
           THEN [err |-> <<"Failed to draw cards">> \o r.err, cards |-> << >>, dm |-> r.dm]
           ELSE r

\* Array.prototype.slice(from, to) on a sequence (0-based, to exclusive)
slice(cards, from, to) ==
  LET hi == IF to < Len(cards) THEN to ELSE Len(cards)
  IN  SubSeq(cards, from + 1, hi)

\* a deal that adds the new cards to the hands instead of setting the hands
dealInitialCards_AddsToHands(resp) ==
  LET r == drawCards(resp)
  IN  /\ thrown' = IF r.err # << >> THEN <<"Failed to deal initial cards">> \o r.err
                   ELSE << >>
      /\ playerCards' = IF r.err = << >> THEN playerCards \o slice(r.cards, 0, 2)
                        ELSE playerCards
      /\ dealerCards' = IF r.err = << >> THEN dealerCards \o slice(r.cards, 2, Len(r.cards))
                        ELSE dealerCards
      /\ deckManager' = r.dm
      /\ source' = IF deckManager.exists THEN SourceAfterDraw(resp) ELSE source
      /\ UNCHANGED <<balance, bet, outcome, winnings, store>>

\* GameEngine.dealInitialCards
dealInitialCards(resp) ==
  LET r == drawCards(resp)
  IN  /\ thrown' = IF r.err # << >> THEN <<"Failed to deal initial cards">> \o r.err
                   ELSE << >>
      /\ playerCards' = IF r.err = << >> THEN slice(r.cards, 0, 2) ELSE playerCards
      /\ dealerCards' = IF r.err = << >> THEN slice(r.cards, 2, Len(r.cards))
                        ELSE dealerCards
      /\ deckManager' = r.dm
      /\ source' = IF deckManager.exists THEN SourceAfterDraw(resp) ELSE source
      /\ UNCHANGED <<balance, bet, outcome, winnings, store>>

\* a check that never reshuffles
reshuffleCheck_Never(resp) ==
  IF ~deckManager.exists
  THEN /\ thrown' = DeckManagerUndefined
       /\ UNCHANGED <<deckManager, source>>
  ELSE /\ thrown' = << >>
       /\ UNCHANGED <<deckManager, source>>

\* a check that reshuffles whether or not the cut card was reached
reshuffleCheck_Unconditional(resp) ==
  IF ~deckManager.exists
  THEN /\ thrown' = DeckManagerUndefined
       /\ UNCHANGED <<deckManager, source>>
  ELSE LET r == DeckManager_reshuffle(deckManager, resp)
       IN  /\ thrown' = IF r.err # << >> THEN <<"Failed to reshuffle deck">> \o r.err
                        ELSE << >>
           /\ deckManager' = r.dm
           /\ source' = SourceAfterReshuffle(resp)

\* GameEngine.checkToReshuffleDeck: what it does to the shoe and what it throws
reshuffleCheck(resp) ==
  IF ~deckManager.exists
  THEN /\ thrown' = DeckManagerUndefined
       /\ UNCHANGED <<deckManager, source>>
  ELSE IF shouldReshuffle(deckManager)
  THEN LET r == DeckManager_reshuffle(deckManager, resp)
       IN  /\ thrown' = IF r.err # << >> THEN <<"Failed to reshuffle deck">> \o r.err
                        ELSE << >>
           /\ deckManager' = r.dm
           /\ source' = SourceAfterReshuffle(resp)
  ELSE /\ thrown' = << >>
       /\ UNCHANGED <<deckManager, source>>

\* GameEngine.checkToReshuffleDeck
checkToReshuffleDeck(resp) ==
  /\ reshuffleCheck(resp)
  /\ UNCHANGED <<playerCards, dealerCards, balance, bet, outcome, winnings, store>>

\* a placeBet that records the stake before it checks the balance
placeBet_RecordsFirst(amount) ==
  /\ bet' = amount
  /\ IF amount > balance
     THEN /\ thrown' = <<"Cannot bet more than player's balance">>
          /\ UNCHANGED balance
     ELSE /\ thrown' = << >>
          /\ balance' = balance - amount
  /\ UNCHANGED <<playerCards, dealerCards, outcome, winnings, deckManager, source, store>>

\* a placeBet that records the stake but does not debit it
placeBet_NoDebit(amount) ==
  /\ IF amount > balance
     THEN /\ thrown' = <<"Cannot bet more than player's balance">>
          /\ UNCHANGED bet
     ELSE /\ thrown' = << >>
          /\ bet' = amount
  /\ UNCHANGED <<balance, playerCards, dealerCards, outcome, winnings, deckManager,
                 source, store>>

\* GameEngine.placeBet
placeBet(amount) ==
  /\ IF amount > balance
     THEN /\ thrown' = <<"Cannot bet more than player's balance">>
          /\ UNCHANGED <<bet, balance>>
     ELSE /\ thrown' = << >>
          /\ bet' = amount
          /\ balance' = balance - amount
  /\ UNCHANGED <<playerCards, dealerCards, outcome, winnings, deckManager, source, store>>

\* GameEngine.addFundsToPlayer
addFundsToPlayer(amount) ==
  /\ balance' = balance + amount
  /\ thrown' = << >>
  /\ UNCHANGED <<playerCards, dealerCards, bet, outcome, winnings, deckManager, source,
                 store>>

\* a status that does not single out 21
getPlayerActionStatus_No21(cards) ==
  LET value == getCardTotal(cards).value
  IN  IF value > 21 THEN Busted ELSE Active

getPlayerActionStatus(cards) ==
  LET value == getCardTotal(cards).value
  IN  IF value > 21 THEN Busted
      ELSE IF value = 21 THEN Has_21
      ELSE Active

\* a hit that puts the drawn card in front of the hand
hitPlayer_Prepends(resp) ==
  LET r == drawCard(resp)
  IN  /\ thrown' = IF r.err # << >> THEN <<"Failed to hit player">> \o r.err ELSE << >>
      /\ playerCards' = IF r.err = << >> THEN <<r.card>> \o playerCards ELSE playerCards
      /\ deckManager' = r.dm
      /\ source' = IF deckManager.exists THEN SourceAfterDraw(resp) ELSE source
      /\ UNCHANGED <<dealerCards, balance, bet, outcome, winnings, store>>

\* GameEngine.hitPlayer
hitPlayer(resp) ==
  LET r == drawCard(resp)
  IN  /\ thrown' = IF r.err # << >> THEN <<"Failed to hit player">> \o r.err ELSE << >>
      /\ playerCards' = IF r.err = << >> THEN Append(playerCards, r.card) ELSE playerCards
      /\ deckManager' = r.dm
      /\ source' = IF deckManager.exists THEN SourceAfterDraw(resp) ELSE source
      /\ UNCHANGED <<dealerCards, balance, bet, outcome, winnings, store>>

\* GameEngine.hitDealer, wrapped with `wrap` by a caller that rethrows
hitDealerWrapped(resp, wrap) ==
  LET r == drawCard(resp)
  IN  /\ thrown' = IF r.err # << >> THEN wrap \o <<"Failed to hit dealer">> \o r.err
                   ELSE << >>
      /\ dealerCards' = IF r.err = << >> THEN Append(dealerCards, r.card) ELSE dealerCards
      /\ deckManager' = r.dm
      /\ source' = IF deckManager.exists THEN SourceAfterDraw(resp) ELSE source
      /\ UNCHANGED <<playerCards, balance, bet, outcome, winnings, store>>

\* GameEngine.hitDealer
hitDealer(resp) == hitDealerWrapped(resp, << >>)

\* an iteration that swallows a failed draw and goes round the loop again
playThroughDealerDraw_Retries(resp) ==
  /\ shouldHit(dealerCards)
  /\ IF resp.success /\ Len(resp.cards) = 1
     THEN hitDealerWrapped(resp, <<"Failing to play through hitting dealer">>)
     ELSE /\ thrown' = << >>
          /\ UNCHANGED <<playerCards, dealerCards, balance, bet, outcome, winnings,
                         deckManager, source, store>>
  /\ awaiting' = "playThroughDealer"

\* an iteration that rethrows hitDealer's error as it is
playThroughDealerDraw_Rethrows(resp) ==
  /\ shouldHit(dealerCards)
  /\ hitDealerWrapped(resp, << >>)
  /\ awaiting' = IF thrown' = << >> THEN "playThroughDealer" ELSE "none"

\* GameEngine.playThroughDealer, one iteration of the loop: the dealer draws
playThroughDealerDraw(resp) ==
  /\ shouldHit(dealerCards)
  /\ hitDealerWrapped(resp, <<"Failing to play through hitting dealer">>)
  /\ awaiting' = IF thrown' = << >> THEN "playThroughDealer" ELSE "none"

\* GameEngine.playThroughDealer, leaving the loop: the dealer stands
playThroughDealerReturn ==
  /\ ~shouldHit(dealerCards)
  /\ awaiting' = "none"
  /\ thrown' = << >>
  /\ UNCHANGED <<playerCards, dealerCards, balance, bet, outcome, winnings,
                 deckManager, source, store>>

\* the decision table of GameEngine.evaluateOutcome, blackjack tests without the negations
evaluatedOutcome_NoNegation(pCards, dCards) ==
  LET playerTotal == getCardTotal(pCards).value
      dealerTotal == getCardTotal(dCards).value
  IN  IF hasBlackjack(pCards) THEN PlayerWonWithBlackjack
      ELSE IF hasBlackjack(dCards) THEN DealerWonWithBlackjack
      ELSE IF playerTotal > 21 THEN DealerWon
      ELSE IF dealerTotal > 21 THEN PlayerWon
      ELSE IF playerTotal > dealerTotal THEN PlayerWon
      ELSE IF dealerTotal > playerTotal THEN DealerWon
      ELSE Push

\* the decision table with the dealer's bust tested before the player's
evaluatedOutcome_DealerBustFirst(pCards, dCards) ==
  LET playerTotal == getCardTotal(pCards).value
      dealerTotal == getCardTotal(dCards).value
      playerHasBlackjack == hasBlackjack(pCards)
      dealerHasBlackjack == hasBlackjack(dCards)
  IN  IF playerHasBlackjack /\ ~dealerHasBlackjack THEN PlayerWonWithBlackjack
      ELSE IF dealerHasBlackjack /\ ~playerHasBlackjack THEN DealerWonWithBlackjack
      ELSE IF dealerTotal > 21 THEN PlayerWon
      ELSE IF playerTotal > 21 THEN DealerWon
      ELSE IF playerTotal > dealerTotal THEN PlayerWon
      ELSE IF dealerTotal > playerTotal THEN DealerWon
      ELSE Push

\* the decision table of GameEngine.evaluateOutcome
evaluatedOutcome(pCards, dCards) ==
  LET playerTotal == getCardTotal(pCards).value
      dealerTotal == getCardTotal(dCards).value
      playerHasBlackjack == hasBlackjack(pCards)
      dealerHasBlackjack == hasBlackjack(dCards)
  IN  IF playerHasBlackjack /\ ~dealerHasBlackjack THEN PlayerWonWithBlackjack
      ELSE IF dealerHasBlackjack /\ ~playerHasBlackjack THEN DealerWonWithBlackjack
      ELSE IF playerTotal > 21 THEN DealerWon
      ELSE IF dealerTotal > 21 THEN PlayerWon
      ELSE IF playerTotal > dealerTotal THEN PlayerWon
      ELSE IF dealerTotal > playerTotal THEN DealerWon
      ELSE Push

\* a payout switch that pays a blackjack like an ordinary win
payoutFor_BlackjackEvenMoney(o, b) ==
  IF o = PlayerWonWithBlackjack THEN b + b
  ELSE IF o = PlayerWon THEN b + b
  ELSE IF o = Push THEN b
  ELSE 0

\* a payout that charges the stake of a lost round a second time
payoutFor_LoserPaysAgain(o, b) ==
  IF o = PlayerWonWithBlackjack THEN b + (b * 3) \div 2
  ELSE IF o = PlayerWon THEN b + b
  ELSE IF o = Push THEN b
  ELSE 0 - b

\* a payout that keeps the stake of a tied round
payoutFor_PushForfeitsStake(o, b) ==
  IF o = PlayerWonWithBlackjack THEN b + (b * 3) \div 2
  ELSE IF o = PlayerWon THEN b + b
  ELSE 0

\* the switch of GameEngine.applyPayout; bet * 1.5 is exact for a whole-number bet
payoutFor(o, b) ==
  IF o = PlayerWonWithBlackjack THEN b + (b * 3) \div 2
  ELSE IF o = PlayerWon THEN b + b
  ELSE IF o = Push THEN b
  ELSE 0

\* an evaluation that credits the payout twice
evaluateOutcome_CreditsTwice ==
  LET o == evaluatedOutcome(playerCards, dealerCards)
      payout == payoutFor(o, bet)
  IN  /\ outcome' = o
      /\ winnings' = payout
      /\ balance' = balance + payout + payout
      /\ store' = Player_save(store, balance')
      /\ thrown' = << >>
      /\ UNCHANGED <<playerCards, dealerCards, bet, deckManager, source>>

\* GameEngine.evaluateOutcome, with applyPayout: the payout is credited and
\* player.save() is called; its promise is not awaited, so nothing it rejects with
\* is thrown here
evaluateOutcome ==
  LET o == evaluatedOutcome(playerCards, dealerCards)
      payout == payoutFor(o, bet)
  IN  /\ outcome' = o
      /\ winnings' = payout
      /\ balance' = balance + payout
      /\ store' = Player_save(store, balance')
      /\ thrown' = << >>
      /\ UNCHANGED <<playerCards, dealerCards, bet, deckManager, source>>

\* a reset that forgets to clear the outcome
resetFields_KeepsOutcome ==
  /\ outcome' = outcome
  /\ winnings' = NoWinnings

\* the assignments of GameEngine.resetGame
resetFields ==
  /\ outcome' = NULL
  /\ winnings' = NoWinnings

\* a reset that also clears the player's stake
resetGame_ClearsStake ==
  /\ resetFields
  /\ bet' = 0
  /\ thrown' = << >>
  /\ UNCHANGED <<playerCards, dealerCards, balance, deckManager, source, store>>

\* GameEngine.resetGame
resetGame ==
  /\ resetFields
  /\ thrown' = << >>
  /\ UNCHANGED <<playerCards, dealerCards, balance, bet, deckManager, source, store>>

(***************************************************************************)
(* cli/prompts.ts: what the player can type.                               *)
(***************************************************************************)
\* validate of promptBet
validBet(b, maxBet) == b > 0 /\ b <= maxBet

\* the whole-number bets promptBet(maxBet) returns: small ones and the largest one
BetInputs(maxBet) ==
  {b \in {Unit * k : k \in 0..MaxBet} \cup {Unit * (maxBet \div Unit)} : validBet(b, maxBet)}

\* validate of promptDepositAmount
validDeposit(amount) == amount > 0 /\ amount <= MAX_DEPOSIT_AMOUNT * Unit

\* the whole-number deposits promptDepositAmount returns
DepositInputs == {a \in {Unit * k : k \in 0..MaxDeposit} : validDeposit(a)}

(***************************************************************************)
(* App.ts: the game loop, one action per case of the switch in App.run     *)
(* (ROUND_END in two steps, before and after the play-again prompt).       *)
(***************************************************************************)
engineVars == <<playerCards, dealerCards, balance, bet, outcome, winnings,
                deckManager, source, thrown, store>>

\* a handleError that prints the chain and returns to its caller
handleError_Returns(chain) ==
  /\ proc' = proc
  /\ reported' = chain
  /\ UNCHANGED gameState

\* handleError: print the chain, process.exit(1)
handleError(chain) ==
  /\ proc' = "exited"
  /\ reported' = chain
  /\ UNCHANGED gameState

\* this.gameState = next; break; and the return of run at EXIT
Continue(next) ==
  /\ gameState' = next
  /\ proc' = IF next = "EXIT" THEN "returned" ELSE proc
  /\ UNCHANGED reported

UpcardError == <<"dealer upcard unable to be determined">>

InitialGame ==
  /\ proc = "running" /\ gameState = "INITIAL_GAME"
  /\ \E resp \in CreateResponses :
       /\ initialize(resp)
       /\ IF thrown' # << >> THEN handleError(thrown') ELSE Continue("BET_BEFORE_ROUND")
  /\ UNCHANGED <<awaiting, returned, printed>>

\* a retrieveMoreFunds without its `return true`: the deposit is added, and the
\* caller takes the result for a refusal
retrieveMoreFunds_NoReturnTrue ==
  \/ /\ Continue("EXIT")
     /\ UNCHANGED engineVars
  \/ \E amount \in DepositInputs :
       /\ addFundsToPlayer(amount)
       /\ Continue("EXIT")

\* retrieveMoreFunds
retrieveMoreFunds ==
  \/ /\ Continue("EXIT")
     /\ UNCHANGED engineVars
  \/ \E amount \in DepositInputs :
       /\ addFundsToPlayer(amount)
       /\ Continue("BET_BEFORE_ROUND")

BetBeforeRound ==
  /\ proc = "running" /\ gameState = "BET_BEFORE_ROUND"
  /\ IF balance = 0
     THEN retrieveMoreFunds
     ELSE \E b \in BetInputs(balance) :
            /\ placeBet(b)
            /\ IF thrown' # << >>
               THEN handleError(<<"Unexpected error with placing bet">> \o thrown')
               ELSE Continue("INITIAL_ROUND")
  /\ UNCHANGED <<awaiting, returned, printed>>

InitialRound ==
  /\ proc = "running" /\ gameState = "INITIAL_ROUND"
  /\ \E resp \in DrawResponses(4, source) :
       /\ dealInitialCards(resp)
       /\ IF thrown' # << >> THEN handleError(thrown')
          ELSE IF getUpcard(dealerCards') = NULL THEN handleError(UpcardError)
          ELSE Continue("PLAYER_TURN")
  /\ UNCHANGED <<awaiting, returned, printed>>

\* a player's turn in which standing ends the round without the dealer's turn
PlayerTurn_StandSkipsDealer ==
  /\ proc = "running" /\ gameState = "PLAYER_TURN"
  /\ IF hasBlackjack(playerCards)
     THEN Continue("DEALER_TURN") /\ UNCHANGED engineVars
     ELSE IF hasBlackjack(dealerCards)
     THEN Continue("ROUND_END") /\ UNCHANGED engineVars
     ELSE \/ \E resp \in DrawResponses(1, source) :
               /\ hitPlayer(resp)
               /\ IF thrown' # << >> THEN handleError(thrown')
                  ELSE IF getUpcard(dealerCards') = NULL THEN handleError(UpcardError)
                  ELSE IF getPlayerActionStatus(playerCards') \in {Busted, Has_21}
                  THEN Continue("DEALER_TURN")
                  ELSE Continue("PLAYER_TURN")
          \/ /\ Continue("ROUND_END")
             /\ UNCHANGED engineVars
  /\ UNCHANGED <<awaiting, returned, printed>>

\* a player's turn that does not look at the dealer's hand
PlayerTurn_IgnoresDealerBlackjack ==
  /\ proc = "running" /\ gameState = "PLAYER_TURN"
  /\ IF hasBlackjack(playerCards)
     THEN Continue("DEALER_TURN") /\ UNCHANGED engineVars
     ELSE \/ \E resp \in DrawResponses(1, source) :
               /\ hitPlayer(resp)
               /\ IF thrown' # << >> THEN handleError(thrown')
                  ELSE IF getUpcard(dealerCards') = NULL THEN handleError(UpcardError)
                  ELSE IF getPlayerActionStatus(playerCards') \in {Busted, Has_21}
                  THEN Continue("DEALER_TURN")
                  ELSE Continue("PLAYER_TURN")
          \/ /\ Continue("DEALER_TURN")
             /\ UNCHANGED engineVars
  /\ UNCHANGED <<awaiting, returned, printed>>

PlayerTurn ==
  /\ proc = "running" /\ gameState = "PLAYER_TURN"
  /\ IF hasBlackjack(playerCards)
     THEN Continue("DEALER_TURN") /\ UNCHANGED engineVars
     ELSE IF hasBlackjack(dealerCards)
     THEN Continue("ROUND_END") /\ UNCHANGED engineVars
     ELSE \/ \E resp \in DrawResponses(1, source) :
               /\ hitPlayer(resp)
               /\ IF thrown' # << >> THEN handleError(thrown')
                  ELSE IF getUpcard(dealerCards') = NULL THEN handleError(UpcardError)
                  ELSE IF getPlayerActionStatus(playerCards') \in {Busted, Has_21}
                  THEN Continue("DEALER_TURN")
                  ELSE Continue("PLAYER_TURN")
          \/ /\ Continue("DEALER_TURN")
             /\ UNCHANGED engineVars
  /\ UNCHANGED <<awaiting, returned, printed>>

\* a dealer's turn that hits once where the dealer should hit, and ends
DealerTurn_HitsOnce ==
  /\ proc = "running" /\ gameState = "DEALER_TURN"
  /\ IF shouldHit(dealerCards)
     THEN \E resp \in DrawResponses(1, source) :
            /\ hitDealerWrapped(resp, <<"Failing to play through hitting dealer">>)
            /\ awaiting' = "none"
            /\ IF thrown' # << >> THEN handleError(thrown') ELSE Continue("ROUND_END")
     ELSE /\ playThroughDealerReturn
          /\ Continue("ROUND_END")
  /\ UNCHANGED <<returned, printed>>

DealerTurn ==
  /\ proc = "running" /\ gameState = "DEALER_TURN"
  /\ IF shouldHit(dealerCards)
     THEN \E resp \in DrawResponses(1, source) :
            /\ playThroughDealerDraw(resp)
            /\ IF thrown' # << >> THEN handleError(thrown') ELSE Continue("DEALER_TURN")
     ELSE /\ playThroughDealerReturn
          /\ Continue("ROUND_END")
  /\ UNCHANGED <<returned, printed>>

\* ROUND_END up to the play-again prompt
\* nothing of the round's result is on the screen
NoLine == [line |-> "", amountWon |-> 0]

\* the switch (outcome) of ROUND_END: printPlayerWins(winnings), printDealerWins(),
\* printPush()
resultLine(o, w) ==
  IF o \in {PlayerWonWithBlackjack, PlayerWon}
  THEN [line |-> "You win", amountWon |-> w]
  ELSE IF o \in {DealerWonWithBlackjack, DealerWon}
  THEN [line |-> "Dealer wins.", amountWon |-> 0]
  ELSE [line |-> "Push.", amountWon |-> 0]

RoundEndEvaluate ==
  /\ proc = "running" /\ gameState = "ROUND_END" /\ awaiting = "none"
  /\ evaluateOutcome
  /\ awaiting' = "promptPlayAgain"
  /\ IF outcome' = NULL THEN handleError(<<"outcome unable to be determined">>)
     ELSE IF winnings' = NoWinnings
     THEN handleError(<<"player winnings unable to be determined">>)
     ELSE UNCHANGED <<gameState, proc, reported>>
  /\ printed' = IF outcome' = NULL \/ winnings' = NoWinnings THEN NoLine
                ELSE resultLine(outcome', winnings')
  /\ UNCHANGED returned

\* ROUND_END from the answer to the play-again prompt, the card source answering
\* reshuffleDeck with one of `responses`
RoundEndAnswerFrom(responses) ==
  /\ proc = "running" /\ gameState = "ROUND_END" /\ awaiting = "promptPlayAgain"
  /\ awaiting' = "none"
  /\ printed' = NoLine
  /\ UNCHANGED <<playerCards, dealerCards, balance, bet, store, returned>>
  /\ \/ /\ balance <= MaxBalance
        /\ \E resp \in responses :
             /\ reshuffleCheck(resp)
             /\ IF thrown' # << >>
                THEN /\ proc' = "exited"
                     /\ reported' = thrown'
                     /\ gameState' = "BET_BEFORE_ROUND"
                     /\ UNCHANGED <<outcome, winnings>>
                ELSE /\ resetFields
                     /\ Continue("BET_BEFORE_ROUND")
     \/ /\ resetFields
        /\ Continue("EXIT")
        /\ UNCHANGED <<thrown, deckManager, source>>

RoundEndAnswer == RoundEndAnswerFrom(ReshuffleResponses)

AppInit ==
  /\ gameState = "INITIAL_GAME"
  /\ proc = "running"
  /\ playerCards = << >>
  /\ dealerCards = << >>
  /\ balance \in {STARTING_BALANCE * Unit} \cup (0..MaxStoredBalance)
  /\ bet = 0
  /\ outcome = NULL
  /\ winnings = NoWinnings
  /\ deckManager = NoDeckManager
  /\ source = 0
  /\ thrown = << >>
  /\ reported = << >>
  /\ awaiting = "none"
  /\ store = [issued |-> NoSave, unhandled |-> << >>]
  /\ returned = << >>
  /\ printed = NoLine /\ pending = 0

Init == AppInit

\* one pass of the switch in App.run
AppStep ==
  \/ InitialGame
  \/ BetBeforeRound
  \/ InitialRound
  \/ PlayerTurn
  \/ DealerTurn
  \/ RoundEndEvaluate
  \/ RoundEndAnswer

\* the loop with every awaited request taken as one step with its answer
Next ==
  \/ InitialGame /\ UNCHANGED pending
  \/ BetBeforeRound /\ UNCHANGED pending
  \/ InitialRound /\ UNCHANGED pending
  \/ PlayerTurn /\ UNCHANGED pending
  \/ DealerTurn /\ UNCHANGED pending
  \/ RoundEndEvaluate /\ UNCHANGED pending
  \/ RoundEndAnswer /\ UNCHANGED pending

Spec == Init /\ [][Next]_vars

(***************************************************************************)
(* The hand specification: a Participant (here the dealer) whose hand is    *)
(* built from all 13 ranks by setCards and addCard.                        *)
(***************************************************************************)
\* an addCard that puts the card in the place of the last one
ParticipantAddCard_Replaces ==
  /\ Len(dealerCards) < MaxHandLen
  /\ \E card \in CardRank :
       dealerCards' = IF dealerCards = << >> THEN <<card>>
                      ELSE [dealerCards EXCEPT ![Len(dealerCards)] = card]
  /\ UNCHANGED <<gameState, proc, playerCards, balance, bet, outcome, winnings,
                 deckManager, source, thrown, reported, awaiting, store, returned,
                 printed, pending>>

ParticipantAddCard ==
  /\ Len(dealerCards) < MaxHandLen
  /\ \E card \in CardRank : dealerCards' = Append(dealerCards, card)
  /\ UNCHANGED <<gameState, proc, playerCards, balance, bet, outcome, winnings,
                 deckManager, source, thrown, reported, awaiting, store, returned,
                 printed, pending>>

ParticipantSetCards ==
  /\ \E cards \in {<< >>} \cup {<<c>> : c \in CardRank} : dealerCards' = cards
  /\ UNCHANGED <<gameState, proc, playerCards, balance, bet, outcome, winnings,
                 deckManager, source, thrown, reported, awaiting, store, returned,
                 printed, pending>>

HandInit ==
  /\ AppInit
  /\ balance = STARTING_BALANCE * Unit

HandNext == ParticipantAddCard \/ ParticipantSetCards

HandSpec == HandInit /\ [][HandNext]_vars

(***************************************************************************)
(* The engine specification: the synchronous operations of GameEngine      *)
(* called in any order, with any amount, on hands set on the table as      *)
(* GameEngine.test.ts sets them, and the settling of the save they issue.  *)
(***************************************************************************)
\* the hands GameEngine.test.ts puts on the table with setCards
TestHands ==
  {<< >>, <<"A", "K">>, <<"K", "A">>, <<"7", "8">>, <<"K", "7">>, <<"K", "7", "5">>}

\* the whole-number amounts a caller passes to placeBet
EngineBets == {Unit * k : k \in 0..(MaxBet + 1)}

appVars == <<gameState, proc, reported, awaiting, returned, printed, pending>>

EnginePlaceBet ==
  /\ \E amount \in EngineBets : placeBet(amount)
  /\ UNCHANGED appVars

EngineAddFunds ==
  /\ balance <= MaxBalance
  /\ \E amount \in DepositInputs : addFundsToPlayer(amount)
  /\ UNCHANGED appVars

EngineEvaluateOutcome ==
  /\ balance <= MaxBalance
  /\ evaluateOutcome
  /\ UNCHANGED appVars

EngineResetGame ==
  /\ resetGame
  /\ UNCHANGED appVars

\* the save issued by the last evaluation settles, after evaluateOutcome has returned
SaveSettles ==
  /\ store.issued # NoSave
  /\ \E ok \in BOOLEAN : store' = Player_saveSettles(store, ok)
  /\ UNCHANGED <<playerCards, dealerCards, balance, bet, outcome, winnings,
                 deckManager, source, thrown>>
  /\ UNCHANGED appVars

\* a constructed engine whose participants hold the given hands
EngineConstructed(hands) ==
  /\ gameState = "INITIAL_GAME"
  /\ proc = "running"
  /\ playerCards \in hands
  /\ dealerCards \in hands
  /\ bet = 0
  /\ outcome = NULL
  /\ winnings = NoWinnings
  /\ deckManager = NoDeckManager
  /\ source = 0
  /\ thrown = << >>
  /\ reported = << >>
  /\ awaiting = "none"
  /\ store = [issued |-> NoSave, unhandled |-> << >>]
  /\ returned = << >>
  /\ printed = NoLine /\ pending = 0

EngineInit ==
  /\ EngineConstructed(TestHands)
  /\ balance \in 0..MaxStoredBalance

EngineNext ==
  \/ EnginePlaceBet
  \/ EngineAddFunds
  \/ EngineEvaluateOutcome
  \/ EngineResetGame
  \/ SaveSettles

EngineSpec == EngineInit /\ [][EngineNext]_vars

(***************************************************************************)
(* The outcome specification: evaluateOutcome and resetGame on every pair  *)
(* of hands of up to MaxTableHand cards, with nothing at stake.            *)
(***************************************************************************)
TableRanks == {RankOrder[i] : i \in 1..NumTableRanks}

\* the hands of up to MaxTableHand cards of these ranks
TableHands == UNION {[1..n -> TableRanks] : n \in 0..MaxTableHand}

OutcomeInit ==
  /\ EngineConstructed(TableHands)
  /\ balance = 0

OutcomeNext ==
  \/ EngineEvaluateOutcome
  \/ EngineResetGame

OutcomeSpec == OutcomeInit /\ [][OutcomeNext]_vars

(***************************************************************************)
(* The DeckManager on its own, with the API client mocked as in            *)
(* DeckManager.test.ts: a response carries whatever cards and whatever     *)
(* remaining count the mock was given.  `source` keeps the count the       *)
(* service reported when the shoe was created, `thrown` and `returned`     *)
(* what the last call threw and returned.                                  *)
(***************************************************************************)
\* the largest count asked of drawCards
MaxDrawCount == 2

DEFAULT_DECK_COUNT == 6
CardsPerDeck == 52

\* the deck counts shoes are set up with
DeckCountInputs == {2, 5, DEFAULT_DECK_COUNT}

\* mockCard and mockCard2
MockCards == {"A", "8"}

\* the remaining counts a mocked response reports: none, and those around the cut
\* card of the shoe
ReportedCounts == {0} \cup {cutCardPositionFor(source) + k : k \in {-1, 0, 1}}

\* drawCard mocked: rejected, or resolved with up to one card more than asked for
MockDrawResponses(count) ==
  {[success |-> FALSE, cards |-> << >>, remaining |-> 0]} \cup
  {[success |-> TRUE, cards |-> cs, remaining |-> n] :
     cs \in UNION {[1..k -> MockCards] : k \in 0..(count + 1)}, n \in ReportedCounts}

\* reshuffleDeck mocked: rejected, or resolved with the full shoe or any other count
MockReshuffleResponses ==
  {[success |-> FALSE, remaining |-> 0]} \cup
  {[success |-> TRUE, remaining |-> n] : n \in ReportedCounts \cup {source}}

deckVars == <<gameState, proc, playerCards, dealerCards, balance, bet, outcome,
              winnings, reported, awaiting, store, printed, pending>>

\* await deckManager.drawCard() with the response `resp`
DeckDrawCardWith(resp) ==
  LET r == DeckManager_drawCard(deckManager, resp)
  IN  /\ deckManager' = r.dm
      /\ thrown' = r.err
      /\ returned' = IF r.err = << >> THEN <<r.card>> ELSE << >>
      /\ UNCHANGED source
      /\ UNCHANGED deckVars

DeckDrawCard == \E resp \in MockDrawResponses(1) : DeckDrawCardWith(resp)

\* await deckManager.drawCards(count) with the response `resp`
DeckDrawCardsWith(resp) ==
  LET r == DeckManager_drawCards(deckManager, resp)
  IN  /\ deckManager' = r.dm
      /\ thrown' = r.err
      /\ returned' = r.cards
      /\ UNCHANGED source
      /\ UNCHANGED deckVars

DeckDrawCards ==
  \E count \in 1..MaxDrawCount : \E resp \in MockDrawResponses(count) :
    DeckDrawCardsWith(resp)

\* await deckManager.reshuffle() with the response `resp`
DeckReshuffleWith(resp) ==
  LET r == DeckManager_reshuffle(deckManager, resp)
  IN  /\ deckManager' = r.dm
      /\ thrown' = r.err
      /\ returned' = << >>
      /\ UNCHANGED source
      /\ UNCHANGED deckVars

DeckReshuffle == \E resp \in MockReshuffleResponses : DeckReshuffleWith(resp)

\* deckManager.shouldReshuffle()
DeckShouldReshuffle ==
  /\ returned' = <<IF shouldReshuffle(deckManager) THEN "true" ELSE "false">>
  /\ thrown' = << >>
  /\ UNCHANGED <<deckManager, source>>
  /\ UNCHANGED deckVars

\* DeckManager.setup(deckCount) resolved with deckCount decks of 52
DeckInit ==
  \E d \in DeckCountInputs :
    /\ gameState = "INITIAL_GAME" /\ proc = "running"
    /\ playerCards = << >> /\ dealerCards = << >>
    /\ balance = 0 /\ bet = 0
    /\ outcome = NULL /\ winnings = NoWinnings
    /\ thrown = << >> /\ reported = << >> /\ returned = << >> /\ printed = NoLine /\ pending = 0
    /\ awaiting = "none"
    /\ store = [issued |-> NoSave, unhandled |-> << >>]
    /\ source = CardsPerDeck * d
    /\ deckManager = DeckManager_setup([success |-> TRUE, remaining |-> CardsPerDeck * d]).dm

DeckNext ==
  \/ DeckDrawCard
  \/ DeckDrawCards
  \/ DeckReshuffle
  \/ DeckShouldReshuffle

DeckSpec == DeckInit /\ [][DeckNext]_vars

(***************************************************************************)
(* The dealer's turn on its own: App's DEALER_TURN, that is                *)
(* playThroughDealer, from every dealer hand, with a full shoe or with a   *)
(* shoe that has no card left.                                             *)
(***************************************************************************)
DealerInit ==
  \E n \in {0, CardsPerDeck * DEFAULT_DECK_COUNT} :
    /\ gameState = "DEALER_TURN" /\ proc = "running"
    /\ playerCards = << >>
    /\ dealerCards \in TableHands
    /\ balance = 0 /\ bet = 0
    /\ outcome = NULL /\ winnings = NoWinnings
    /\ thrown = << >> /\ reported = << >> /\ returned = << >> /\ printed = NoLine /\ pending = 0
    /\ awaiting = "none"
    /\ store = [issued |-> NoSave, unhandled |-> << >>]
    /\ source = n
    /\ deckManager = DeckManager_new(n)

DealerNext == DealerTurn /\ UNCHANGED pending

DealerSpec == DealerInit /\ [][DealerNext]_vars

\* the loop is one async function: once called, its next iteration is always run
FairDealerSpec == DealerSpec /\ WF_vars(DealerNext)

(***************************************************************************)
(* One round of the App on the default shoe, from the deal to the          *)
(* reshuffle check at its end.  The shoe is the six decks                  *)
(* DeckManager.setup asks for, untouched before the first round of a       *)
(* session or drawn down to the cut card, the lowest count on which        *)
(* checkToReshuffleDeck lets a round start (C35); the card source reports  *)
(* its counts as they are and refills the shoe on reshuffleDeck.           *)
(***************************************************************************)
DefaultShoe == CardsPerDeck * DEFAULT_DECK_COUNT

ShoeReshuffleResponses ==
  {[success |-> FALSE, remaining |-> 0], [success |-> TRUE, remaining |-> DefaultShoe]}

\* the bet of one unit is placed and the deal is next; the hands are empty before the
\* first round and those of the round before in a later one
ShoeInit ==
  /\ gameState = "INITIAL_ROUND" /\ proc = "running"
  /\ balance = 0 /\ bet = Unit
  /\ outcome = NULL /\ winnings = NoWinnings
  /\ thrown = << >> /\ reported = << >> /\ returned = << >>
  /\ printed = NoLine /\ pending = 0
  /\ awaiting = "none"
  /\ store = [issued |-> NoSave, unhandled |-> << >>]
  /\ \/ /\ source = DefaultShoe
        /\ playerCards = << >> /\ dealerCards = << >>
     \/ /\ source = cutCardPositionFor(DefaultShoe)
        /\ playerCards = <<"K", "7", "5">> /\ dealerCards = <<"K", "7">>
  /\ deckManager = [DeckManager_new(DefaultShoe) EXCEPT !.remaining = source]

ShoeNext ==
  \/ InitialRound /\ UNCHANGED pending
  \/ PlayerTurn /\ UNCHANGED pending
  \/ DealerTurn /\ UNCHANGED pending
  \/ RoundEndEvaluate /\ UNCHANGED pending
  \/ RoundEndAnswerFrom(ShoeReshuffleResponses) /\ UNCHANGED pending

ShoeSpec == ShoeInit /\ [][ShoeNext]_vars

(***************************************************************************)
(* The App loop with the saves followed into storage.  applyPayout calls   *)
(* player.save() and drops its promise, so the put of each save is on its  *)
(* way while run goes on, and nothing orders the puts of two saves that    *)
(* are on their way together; the process lives until they have settled.   *)
(***************************************************************************)
\* the sequence without its i-th element
Without(seq, i) == SubSeq(seq, 1, i - 1) \o SubSeq(seq, i + 1, Len(seq))

\* App.setup: the player is loaded with the stored balance, or created and saved
\* (awaited) with the starting balance
SaveInit ==
  /\ gameState = "INITIAL_GAME"
  /\ proc = "running"
  /\ playerCards = << >> /\ dealerCards = << >>
  /\ balance \in 0..MaxStoredBalance
  /\ bet = 0
  /\ outcome = NULL /\ winnings = NoWinnings
  /\ deckManager = NoDeckManager
  /\ source = 0
  /\ thrown = << >> /\ reported = << >> /\ returned = << >>
  /\ awaiting = "none"
  /\ printed = NoLine /\ pending = 0
  /\ store = StoreHolding(balance)

\* the put of one of the saves on its way settles: storage.save resolves with the
\* balance of that save written, or rejects
SaveLands ==
  /\ proc # "exited"
  /\ \E i \in 1..Len(store.inFlight) : \E ok \in BOOLEAN :
       store' = [store EXCEPT
                   !.inFlight = Without(@, i),
                   !.saved = IF ok THEN store.inFlight[i] ELSE @,
                   !.issued = IF Len(store.inFlight) = 1 THEN NoSave ELSE @,
                   !.unhandled = IF ok THEN @ ELSE <<"Error saving player", StorageFailed>>]
  /\ UNCHANGED <<playerCards, dealerCards, balance, bet, outcome, winnings,
                 deckManager, source, thrown>>
  /\ UNCHANGED appVars

SaveNext ==
  \/ InitialGame /\ UNCHANGED pending
  \/ BetBeforeRound /\ UNCHANGED pending
  \/ InitialRound /\ UNCHANGED pending
  \/ PlayerTurn /\ UNCHANGED pending
  \/ DealerTurn /\ UNCHANGED pending
  \/ Len(store.inFlight) < MaxInFlight /\ RoundEndEvaluate /\ UNCHANGED pending
  \/ RoundEndAnswer /\ UNCHANGED pending
  \/ SaveLands

SaveSpec == SaveInit /\ [][SaveNext]_vars

(***************************************************************************)
(* The App loop with each request to the card source in two steps: the     *)
(* call (createDeck, drawCard, reshuffleDeck) is sent and run is suspended *)
(* at its await, then the answer arrives and the pass of the switch goes   *)
(* on with it.                                                             *)
(***************************************************************************)
\* the next thing the pass of the switch does is call the card source
RequestDue ==
  \/ gameState \in {"INITIAL_GAME", "INITIAL_ROUND"}
  \/ /\ gameState = "PLAYER_TURN"
     /\ ~hasBlackjack(playerCards) /\ ~hasBlackjack(dealerCards)
  \/ gameState = "DEALER_TURN" /\ shouldHit(dealerCards)
  \/ /\ gameState = "ROUND_END" /\ awaiting = "promptPlayAgain"
     /\ deckManager.exists /\ shouldReshuffle(deckManager)

\* this step took an answer of the card source: cards left it, the shoe was created
\* or refilled, or the request failed
RequestAnswered == source' # source \/ thrown' # << >>

\* a call of the card source whose promise is dropped: the caller goes on at once
AwaitSend_NotAwaited ==
  /\ proc = "running" /\ pending <= 1
  /\ RequestDue
  /\ pending' = pending + 1
  /\ UNCHANGED <<gameState, proc, reported, awaiting, returned, printed>>
  /\ UNCHANGED engineVars

\* await <request>: it is sent, and run does nothing until it is answered
AwaitSend ==
  /\ proc = "running" /\ pending = 0
  /\ RequestDue
  /\ pending' = pending + 1
  /\ UNCHANGED <<gameState, proc, reported, awaiting, returned, printed>>
  /\ UNCHANGED engineVars

\* the answer arrives and the pass goes on
AwaitSettle ==
  /\ pending >= 1
  /\ AppStep
  /\ RequestAnswered
  /\ pending' = pending - 1

\* a pass, or the part of one, that calls no card source
AwaitStep ==
  /\ pending = 0
  /\ AppStep
  /\ ~RequestAnswered
  /\ UNCHANGED pending

AwaitNext ==
  \/ AwaitSend
  \/ AwaitSettle
  \/ AwaitStep

AwaitSpec == Init /\ [][AwaitNext]_vars

(***************************************************************************)
(* The rules of Blackjack, stated without the code's operators.            *)
(***************************************************************************)
\* the value of a rank with the ace counted as 1
PipValue(rank) ==
  IF rank = "A" THEN 1
  ELSE IF rank \in {"10", "J", "Q", "K"} THEN 10
  ELSE CHOOSE n \in 2..9 : ToString(n) = rank

RECURSIVE SumOfPips(_, _)
SumOfPips(cards, n) == IF n = 0 THEN 0 ELSE PipValue(cards[n]) + SumOfPips(cards, n - 1)

\* the total with every ace counted as 1
HardTotal(cards) == SumOfPips(cards, Len(cards))

NumAces(cards) == Cardinality({i \in DOMAIN cards : cards[i] = "A"})

\* the totals obtainable with at most one ace counted as 11
Totals(cards) ==
  {HardTotal(cards)} \cup (IF NumAces(cards) >= 1 THEN {HardTotal(cards) + 10} ELSE {})

\* the largest total not above 21, or the total with every ace as 1
BestTotal(cards) ==
  LET ok == {t \in Totals(cards) : t <= 21}
  IN  IF ok # {} THEN CHOOSE t \in ok : \A u \in ok : u <= t ELSE HardTotal(cards)

\* one ace is counted as 11 in the best total
IsSoft(cards) == BestTotal(cards) = HardTotal(cards) + 10

\* 21 in exactly two cards
IsBlackjack(cards) == Len(cards) = 2 /\ BestTotal(cards) = 21

(***************************************************************************)
(* Claims about the hand evaluator, under HandSpec.                        *)
(***************************************************************************)
\* C1: for every hand, getCardTotal's value is the largest total not exceeding 21
\* obtainable with at most one Ace as 11, or else the total with every Ace as 1;
\* the empty hand yields value 0 and hasSoftAce false.
C1_ValueIsBestTotal ==
  /\ getCardTotal(dealerCards).value = BestTotal(dealerCards)
  /\ dealerCards = << >> => getCardTotal(dealerCards) = [value |-> 0, hasSoftAce |-> FALSE]

\* a hand with two aces whose best total is 21 by counting one of them as 11
C1_Witness ==
  /\ NumAces(dealerCards) = 2
  /\ HardTotal(dealerCards) = 11
  /\ getCardTotal(dealerCards).value = 21

\* C2: for every hand, at most one Ace is counted as 11, and hasSoftAce is true
\* exactly when value equals the all-Aces-as-1 total plus 10.
C2_AtMostOneSoftAce ==
  LET total == getCardTotal(dealerCards)
  IN  /\ total.value \in {HardTotal(dealerCards), HardTotal(dealerCards) + 10}
      /\ total.hasSoftAce <=> total.value = HardTotal(dealerCards) + 10
      /\ total.hasSoftAce => NumAces(dealerCards) >= 1

\* a hand of three aces and more, one of them counted as 11
C2_Witness ==
  /\ NumAces(dealerCards) >= 3
  /\ getCardTotal(dealerCards).hasSoftAce
  /\ getCardTotal(dealerCards).value = HardTotal(dealerCards) + 10

\* C3: hasBlackjack() is true iff the hand has exactly 2 cards and its value is 21;
\* it is false for every hand of 1 card and every hand of 3 or more cards totalling 21.
C3_BlackjackIffTwoCards21 ==
  /\ hasBlackjack(dealerCards) <=> IsBlackjack(dealerCards)
  /\ Len(dealerCards) = 1 => ~hasBlackjack(dealerCards)
  /\ (Len(dealerCards) >= 3 /\ BestTotal(dealerCards) = 21) => ~hasBlackjack(dealerCards)

\* three sevens: 21 without blackjack
C3_Witness ==
  /\ dealerCards = <<"7", "7", "7">>
  /\ getCardTotal(dealerCards).value = 21
  /\ ~hasBlackjack(dealerCards)

\* C4: shouldHit() is true iff the value is below 17, or is exactly 17 with a soft
\* ace; it is false for a hard 17 and for every value above 17.
C4_DealerHitsBelow17AndSoft17 ==
  /\ shouldHit(dealerCards) <=>
       \/ BestTotal(dealerCards) < 17
       \/ BestTotal(dealerCards) = 17 /\ IsSoft(dealerCards)
  /\ (BestTotal(dealerCards) = 17 /\ ~IsSoft(dealerCards)) => ~shouldHit(dealerCards)
  /\ BestTotal(dealerCards) > 17 => ~shouldHit(dealerCards)

\* a soft 17 of three cards, on which the dealer hits
C4_Witness ==
  /\ Len(dealerCards) = 3
  /\ BestTotal(dealerCards) = 17
  /\ IsSoft(dealerCards)
  /\ shouldHit(dealerCards)

(***************************************************************************)
(* Claims about the outcome of a round, under OutcomeSpec.                 *)
(***************************************************************************)
\* C5: the recorded outcome is PlayerBlackjack whenever the player has blackjack and
\* the dealer does not (even when the dealer's three or more cards total 21),
\* DealerBlackjack whenever the dealer has blackjack and the player does not, and
\* Push when both have blackjack.
C5_BlackjackPrecedence ==
  outcome # NULL =>
    /\ (IsBlackjack(playerCards) /\ ~IsBlackjack(dealerCards))
         => outcome = PlayerWonWithBlackjack
    /\ (IsBlackjack(dealerCards) /\ ~IsBlackjack(playerCards))
         => outcome = DealerWonWithBlackjack
    /\ (IsBlackjack(playerCards) /\ IsBlackjack(dealerCards)) => outcome = Push

\* player blackjack recorded against a dealer's 21 in three cards
C5_Witness ==
  /\ outcome = PlayerWonWithBlackjack
  /\ IsBlackjack(playerCards)
  /\ Len(dealerCards) >= 3
  /\ BestTotal(dealerCards) = 21

\* the outcome of two hands when no blackjack rule applies
OrdinaryOutcome(pCards, dCards) ==
  IF BestTotal(pCards) > 21 THEN DealerWon
  ELSE IF BestTotal(dCards) > 21 THEN PlayerWon
  ELSE IF BestTotal(pCards) > BestTotal(dCards) THEN PlayerWon
  ELSE IF BestTotal(pCards) < BestTotal(dCards) THEN DealerWon
  ELSE Push

\* C6: when neither blackjack rule applies the recorded outcome is DealerWon if the
\* player busts (also when the dealer busts too), else PlayerWon if the dealer busts,
\* else by comparison of the totals; an evaluated outcome is one of the five, never null.
C6_OrdinaryOutcome ==
  /\ evaluatedOutcome(playerCards, dealerCards) \in Outcome
  /\ winnings # NoWinnings => outcome \in Outcome
  /\ (outcome # NULL /\ IsBlackjack(playerCards) = IsBlackjack(dealerCards))
       => outcome = OrdinaryOutcome(playerCards, dealerCards)

\* the dealer is recorded as winner although both hands are bust
C6_Witness ==
  /\ outcome = DealerWon
  /\ BestTotal(playerCards) > 21
  /\ BestTotal(dealerCards) > 21

(***************************************************************************)
(* Claims about payouts and bets, under EngineSpec.                        *)
(***************************************************************************)
\* the payout of the claim for a whole-number stake b (half units): 2.5 b, 2 b, b, 0, 0
ClaimedPayout(o, b) ==
  CASE o = PlayerWonWithBlackjack -> (5 * b) \div 2
    [] o = PlayerWon -> 2 * b
    [] o = Push -> b
    [] o \in {DealerWon, DealerWonWithBlackjack} -> 0

\* C7: with active stake b, evaluating a round sets the payout to 2.5 b, 2 b, b, 0, 0
\* for PlayerBlackjack, PlayerWon, Push, DealerWon, DealerBlackjack (bet 100 gives
\* 250, 200, 100, 0, 0); the payout is never negative and the balance increases by
\* exactly the payout.
C7_PayoutTable ==
  [][evaluateOutcome =>
       /\ winnings' = ClaimedPayout(outcome', bet)
       /\ winnings' >= 0
       /\ balance' = balance + winnings'
       /\ <<payoutFor(PlayerWonWithBlackjack, 100 * Unit), payoutFor(PlayerWon, 100 * Unit),
            payoutFor(Push, 100 * Unit), payoutFor(DealerWon, 100 * Unit),
            payoutFor(DealerWonWithBlackjack, 100 * Unit)>>
          = <<250 * Unit, 200 * Unit, 100 * Unit, 0, 0>>]_vars

\* a blackjack paid 2.5 units on a stake of one unit
C7_Witness ==
  /\ outcome = PlayerWonWithBlackjack
  /\ bet = Unit
  /\ winnings = 5
  /\ balance >= 5

BetError == <<"Cannot bet more than player's balance">>

\* C8: placeBet(amount) with amount greater than the balance fails with a betting
\* error and changes nothing: balance, stake, both hands, outcome and payout are as before.
C8_RejectedBetChangesNothing ==
  [][\A amount \in EngineBets :
       (amount > balance /\ placeBet(amount)) =>
          /\ thrown' = BetError
          /\ UNCHANGED <<balance, bet, playerCards, dealerCards, outcome, winnings>>]_vars

\* a bet was rejected while a stake and an outcome of an earlier round are recorded
C8_Witness ==
  /\ thrown = BetError
  /\ bet > 0
  /\ bet < Unit * (MaxBet + 1)
  /\ outcome # NULL

\* C9: placeBet(amount) with amount not greater than the balance succeeds, lowers the
\* balance by exactly amount and records amount as the stake (a bet of the whole
\* balance leaves balance 0).
C9_AcceptedBetDebitsStake ==
  [][\A amount \in EngineBets :
       (amount <= balance /\ placeBet(amount)) =>
          /\ thrown' = << >>
          /\ balance' = balance - amount
          /\ bet' = amount
          /\ (amount = balance => balance' = 0)]_vars

\* the whole balance was bet
C9_Witness ==
  /\ thrown = << >>
  /\ bet > 0
  /\ balance = 0
  /\ outcome = NULL

(***************************************************************************)
(* Claims about the game loop, under Spec.                                 *)
(***************************************************************************)
\* a bet was placed by this step
BetPlaced == bet' > 0 /\ balance' = balance - bet' /\ thrown' = << >>

\* C10 as claimed: RoundEnd is entered only from DealerTurn, DealerTurn only from
\* PlayerTurn, PlayerTurn only from InitialDeal, InitialDeal only from AwaitingBet
\* after a bet was placed.
C10_StrictOrder ==
  [][gameState' # gameState =>
       /\ gameState' = "ROUND_END" => gameState = "DEALER_TURN"
       /\ gameState' = "DEALER_TURN" => gameState = "PLAYER_TURN"
       /\ gameState' = "PLAYER_TURN" => gameState = "INITIAL_ROUND"
       /\ gameState' = "INITIAL_ROUND" => (gameState = "BET_BEFORE_ROUND" /\ BetPlaced)]_vars

\* C10 (amended): every round passes through AwaitingBet, InitialDeal, PlayerTurn,
\* DealerTurn, RoundEnd in this order, except that RoundEnd is also entered directly
\* from PlayerTurn when the dealer has blackjack and the player does not.
C10_OrderWithDealerBlackjackShortcut ==
  [][gameState' # gameState =>
       /\ gameState' = "ROUND_END" =>
            \/ gameState = "DEALER_TURN"
            \/ /\ gameState = "PLAYER_TURN"
               /\ hasBlackjack(dealerCards) /\ ~hasBlackjack(playerCards)
               /\ UNCHANGED <<playerCards, dealerCards>>
       /\ gameState' = "DEALER_TURN" => gameState = "PLAYER_TURN"
       /\ gameState' = "PLAYER_TURN" => gameState = "INITIAL_ROUND"
       /\ gameState' = "INITIAL_ROUND" => (gameState = "BET_BEFORE_ROUND" /\ BetPlaced)
       /\ gameState' = "BET_BEFORE_ROUND" => gameState \in {"INITIAL_GAME", "ROUND_END"}
       /\ gameState' = "EXIT" => gameState \in {"BET_BEFORE_ROUND", "ROUND_END"}
       /\ gameState' # "INITIAL_GAME"]_vars

\* a round is at its end, not yet evaluated, with the four cards of the deal on the
\* table and no card drawn since: the dealer's blackjack ended the player's turn
C10_Witness ==
  /\ gameState = "ROUND_END"
  /\ outcome = NULL
  /\ hasBlackjack(dealerCards) /\ ~hasBlackjack(playerCards)
  /\ Len(playerCards) = 2 /\ Len(dealerCards) = 2
  /\ deckManager.remaining = ShoeSize - 4
  /\ bet > 0

(***************************************************************************)
(* Claims about saving, resetting and the recorded result.                 *)
(***************************************************************************)
SaveError == <<"Error saving player", StorageFailed>>

\* the save issued by an evaluation is rejected by storage in this step
SaveFails ==
  /\ store.issued # NoSave
  /\ store' = Player_saveSettles(store, FALSE)

\* C18: if persisting the balance fails after a payout was computed, the payout stays
\* applied to the balance, the recorded outcome and payout are unchanged, and the
\* failure is surfaced to the caller of the evaluation step as a save error.
C18_SaveFailureSurfaced ==
  [][SaveFails =>
       /\ UNCHANGED <<balance, outcome, winnings>>
       /\ thrown' = SaveError
       /\ store'.unhandled = << >>]_vars

\* C19 as claimed: resetRound clears the recorded outcome, payout and stake; after
\* it the stake is no longer the previous round's bet.
C19_ResetClearsStake ==
  [][resetGame =>
       /\ outcome' = NULL
       /\ winnings' = NoWinnings
       /\ (bet > 0 => bet' # bet)]_vars

\* C19 (amended): resetRound clears the recorded outcome and payout and nothing else:
\* the stake keeps the previous round's bet, and the balance and hands are unchanged.
C19_ResetKeepsStake ==
  [][resetGame =>
       /\ outcome' = NULL
       /\ winnings' = NoWinnings
       /\ bet' = bet
       /\ UNCHANGED <<balance, playerCards, dealerCards>>]_vars

\* a round was evaluated (its save was issued) and reset: the result is cleared and
\* the stake of that round is still recorded
C19_Witness ==
  /\ outcome = NULL
  /\ winnings = NoWinnings
  /\ store.issued # NoSave
  /\ bet > 0

\* the App is running a round that has not been evaluated yet
BeforeEvaluation ==
  /\ proc = "running"
  /\ \/ gameState \in {"INITIAL_GAME", "BET_BEFORE_ROUND", "INITIAL_ROUND",
                       "PLAYER_TURN", "DEALER_TURN"}
     \/ gameState = "ROUND_END" /\ awaiting = "none"

\* C20: the recorded outcome and payout are null from construction, and from each
\* reset, until the evaluation of the current round: in every state of the App before
\* RoundEnd's evaluation getOutcome() and getWinnings() are null.
C20_NoResultBeforeEvaluation ==
  BeforeEvaluation => (outcome = NULL /\ winnings = NoWinnings)

\* the player's turn of a later round (an earlier round issued a save), nothing recorded
C20_Witness ==
  /\ proc = "running"
  /\ gameState = "PLAYER_TURN"
  /\ store.issued # NoSave
  /\ outcome = NULL /\ winnings = NoWinnings


(***************************************************************************)
(* C11: after dealInitialCards completes without error the player's hand   *)
(* is the first two cards the one 4-card request delivered and the         *)
(* dealer's hand is the next two, in draw order: two cards each.           *)
(***************************************************************************)
C11_DealGivesTwoEach ==
  [][(InitialRound /\ thrown' = << >>) =>
       /\ Len(playerCards') = 2
       /\ Len(dealerCards') = 2
       /\ \E resp \in DrawResponses(4, source) :
            /\ resp.success
            /\ playerCards' = slice(resp.cards, 0, 2)
            /\ dealerCards' = slice(resp.cards, 2, 4)]_vars


(***************************************************************************)
(* C17: a failing card-source request during dealInitialCards, hitPlayer   *)
(* or playThroughDealer makes the operation fail with the wrapped error of *)
(* its phase, whose cause chain ends at the source's failure; the          *)
(* operation sends no further request, and both hands, the balance and the *)
(* stake are as they were just before the failing request.                 *)
(***************************************************************************)
Last(chain) == chain[Len(chain)]

\* this step's request to the card source failed
SourceFailed == thrown' # << >> /\ Last(thrown') = ApiFailed

\* the operation ends with the error `phase`: the App reports it and exits, the
\* shoe was not asked again, and hands and money are untouched
FailsAs(phase) ==
  /\ thrown'[1] = phase
  /\ reported' = thrown' /\ proc' = "exited" /\ awaiting' = "none"
  /\ source' = source /\ deckManager' = deckManager
  /\ UNCHANGED <<playerCards, dealerCards, balance, bet>>

C17_SourceFailureWrapped ==
  [][/\ (SourceFailed /\ InitialRound) => FailsAs("Failed to deal initial cards")
     /\ (SourceFailed /\ PlayerTurn) => FailsAs("Failed to hit player")
     /\ (SourceFailed /\ DealerTurn) =>
          FailsAs("Failing to play through hitting dealer")]_vars

\* the dealer's play-through failed at a later iteration: the card drawn before the
\* failure is still in the dealer's hand
C17_Witness ==
  /\ proc = "exited"
  /\ reported # << >>
  /\ reported[1] = "Failing to play through hitting dealer"
  /\ Last(reported) = ApiFailed
  /\ Len(dealerCards) >= 3


(***************************************************************************)
(* Claims about the shoe (DeckManager).                                    *)
(***************************************************************************)
\* C14: shouldReshuffle() is true exactly when remaining < cutCardPosition, after any
\* draws and reshuffles, and changes nothing; in a shoe created with 312 cards it is
\* true at 69 remaining and false at 70.
C14_ReshuffleBelowCutCard ==
  [][DeckShouldReshuffle =>
       /\ returned' = <<"true">> <=> deckManager.remaining < deckManager.cutCardPosition
       /\ returned' \in {<<"true">>, <<"false">>}
       /\ deckManager' = deckManager
       /\ (source = 312 /\ deckManager.remaining = 69) => returned' = <<"true">>
       /\ (source = 312 /\ deckManager.remaining = 70) => returned' = <<"false">>]_vars

\* the 312-card shoe was drawn down to 69 and shouldReshuffle() answered true
C14_Witness ==
  /\ source = 312
  /\ deckManager.remaining = 69
  /\ returned = <<"true">>

C16_DrawOneNeedsOneCard ==
  [][\A resp \in MockDrawResponses(1) :
       (resp.success /\ DeckDrawCardWith(resp)) =>
         IF Len(resp.cards) # 1
         THEN /\ thrown' # << >>
              /\ thrown'[1] = "Failed to draw card"
              /\ returned' = << >>
              /\ deckManager' = deckManager
         ELSE /\ thrown' = << >>
              /\ returned' = resp.cards
              /\ deckManager'.remaining = resp.remaining
              /\ deckManager'.cutCardPosition = deckManager.cutCardPosition]_vars

\* a draw answered with two cards failed after a draw answered with one had set
\* remaining to the count below the cut card of the 312-card shoe
C16_Witness ==
  /\ source = 312
  /\ thrown = <<"Failed to draw card", "Wrong number of cards drawn">>
  /\ returned = << >>
  /\ printed = NoLine /\ pending = 0
  /\ deckManager.remaining = 69


(***************************************************************************)
(* Claims about the dealer's play-through.                                 *)
(***************************************************************************)
\* the dealer must hit: below 17, or a soft 17
MustHit(cards) ==
  \/ BestTotal(cards) < 17
  \/ BestTotal(cards) = 17 /\ IsSoft(cards)

PlayThroughEnded == gameState = "ROUND_END" \/ proc = "exited"

\* C13: playThroughDealer always terminates: from any dealer hand and for any cards
\* the source delivers, the loop ends, the dealer standing or busting or a draw
\* failing; every draw is made at a hard total of at most 16 and raises it.
C13_PlayThroughTerminates ==
  /\ <>PlayThroughEnded
  /\ [][(DealerTurn /\ dealerCards' # dealerCards) =>
          /\ HardTotal(dealerCards) <= 16
          /\ HardTotal(dealerCards') > HardTotal(dealerCards)]_vars

\* the loop ended by the dealer busting on a drawn card, far from the end of the shoe
C13_Witness ==
  /\ gameState = "ROUND_END"
  /\ BestTotal(dealerCards) > 21
  /\ Len(dealerCards) > MaxTableHand
  /\ source > 0


(***************************************************************************)
(* Claims about a whole round in the App.                                  *)
(***************************************************************************)
\* what the round leaves the player with, beyond the balance held before the bet
NetResult(o, b) ==
  CASE o = PlayerWonWithBlackjack -> (3 * b) \div 2
    [] o = PlayerWon -> b
    [] o = Push -> 0
    [] o \in {DealerWon, DealerWonWithBlackjack} -> 0 - b

\* C21: a round played with stake b from a balance B held before the bet ends with
\* balance B + 1.5 b on PlayerBlackjack, B + b on PlayerWon, B on Push and B - b on
\* DealerWon or DealerBlackjack: the bet takes b out of B, nothing between the bet and
\* the evaluation touches balance or stake, and the evaluation adds the result to B.
C21_RoundBalance ==
  [][/\ (gameState = "BET_BEFORE_ROUND" /\ gameState' = "INITIAL_ROUND") =>
          (bet' > 0 /\ balance' + bet' = balance)
     /\ (gameState \in {"INITIAL_ROUND", "PLAYER_TURN", "DEALER_TURN"}) =>
          UNCHANGED <<balance, bet>>
     /\ RoundEndEvaluate =>
          (bet' = bet /\ balance' = (balance + bet) + NetResult(outcome', bet))]_vars

\* a tied round was evaluated: the balance is back at what it was before the bet
C21_Witness ==
  /\ gameState = "ROUND_END" /\ awaiting = "promptPlayAgain"
  /\ outcome = Push
  /\ bet > 0
  /\ balance = STARTING_BALANCE * Unit


\* a reshuffle request was sent in this step: the shoe is fuller than it was, or
\* the request failed
ReshuffleRequested ==
  \/ deckManager.exists /\ deckManager'.remaining > deckManager.remaining
  \/ thrown' # << >> /\ thrown'[1] = "Failed to reshuffle deck"

\* C22: a reshuffle is requested only after the round's outcome was evaluated and
\* before the next bet, and only when shouldReshuffle() is true then; no step between
\* the initial deal and the evaluation requests one, however few cards remain.
C22_ReshuffleOnlyBetweenRounds ==
  [][ReshuffleRequested =>
       /\ gameState = "ROUND_END" /\ awaiting = "promptPlayAgain"
       /\ outcome # NULL
       /\ shouldReshuffle(deckManager)
       /\ gameState' = "BET_BEFORE_ROUND"
       /\ UNCHANGED <<playerCards, dealerCards, balance, bet>>]_vars

\* the shoe was reshuffled after a round that had drawn it below the cut card: the
\* next bet is asked for with the full shoe
C22_Witness ==
  /\ gameState = "BET_BEFORE_ROUND" /\ proc = "running"
  /\ bet > 0
  /\ deckManager.remaining = ShoeSize

\* C23: after a round the player wins without blackjack the game reports the net
\* profit, the bet, as the amount won, and the balance is the balance held before the
\* bet plus the bet (balance 100, bet 25: 'You win $25!', balance 125).
C23_ReportedWinIsProfit ==
  [][(RoundEndEvaluate /\ outcome' = PlayerWon) =>
       /\ printed'.line = "You win"
       /\ printed'.amountWon = bet
       /\ balance' = (balance + bet) + bet]_vars


\* C24: in the betting state with balance 0 no bet is requested; a deposit is offered:
\* declining ends the session (EXIT), accepting adds the deposit, between 1 and
\* 100000, to the balance and returns to the betting state, where a bet is then
\* requested.
C24_DepositAtZeroBalance ==
  [][(proc = "running" /\ gameState = "BET_BEFORE_ROUND") =>
       IF balance = 0
       THEN /\ bet' = bet
            /\ \/ gameState' = "EXIT" /\ proc' = "returned" /\ balance' = 0
               \/ /\ gameState' = "BET_BEFORE_ROUND" /\ proc' = "running"
                  /\ balance' >= 1 * Unit
                  /\ balance' <= MAX_DEPOSIT_AMOUNT * Unit
       ELSE /\ gameState' = "INITIAL_ROUND"
            /\ bet' > 0 /\ bet' <= balance
            /\ balance' = balance - bet']_vars

\* the player lost the whole balance in a round and is back in the betting state
C24_Witness ==
  /\ proc = "running" /\ gameState = "BET_BEFORE_ROUND"
  /\ balance = 0
  /\ bet > 0


\* the player is asked to hit or stand: PLAYER_TURN with no blackjack on either side
OfferedChoice ==
  /\ proc = "running" /\ gameState = "PLAYER_TURN"
  /\ ~IsBlackjack(playerCards) /\ ~IsBlackjack(dealerCards)

\* C25: the status is Busted exactly when the player's total exceeds 21, Has_21
\* exactly when it is 21 and Active otherwise; after a hit the player is offered
\* another choice if and only if the status is Active, and so is never offered a
\* choice with a total of 21 or more.
C25_StatusGovernsPlayerTurn ==
  /\ [](/\ getPlayerActionStatus(playerCards) = Busted <=> BestTotal(playerCards) > 21
        /\ getPlayerActionStatus(playerCards) = Has_21 <=> BestTotal(playerCards) = 21
        /\ getPlayerActionStatus(playerCards) = Active <=> BestTotal(playerCards) < 21
        /\ OfferedChoice => BestTotal(playerCards) < 21)
  /\ [][(OfferedChoice /\ playerCards' # playerCards) =>
          /\ (gameState' = "PLAYER_TURN") <=> (BestTotal(playerCards') < 21)
          /\ (gameState' = "DEALER_TURN") <=> (BestTotal(playerCards') >= 21)]_vars

\* the player hit to 21 with a third card and the turn passed to the dealer
C25_Witness ==
  /\ proc = "running" /\ gameState = "DEALER_TURN"
  /\ Len(playerCards) = 3
  /\ BestTotal(playerCards) = 21


(***************************************************************************)
(* C26: at most one request to the card source is outstanding at any time, *)
(* and no game action runs while one is: the step taken with a request     *)
(* outstanding is the arrival of its answer, and every answer is taken     *)
(* with exactly that one request outstanding.                              *)
(***************************************************************************)
C26_OneRequestAtATime ==
  /\ [](pending <= 1)
  /\ [][/\ (pending >= 1) => (pending' = pending - 1 /\ RequestAnswered)
        /\ RequestAnswered => pending = 1]_vars

\* a draw of the dealer's play-through is outstanding after an earlier one was answered
C26_Witness ==
  /\ pending = 1
  /\ gameState = "DEALER_TURN"
  /\ awaiting = "playThroughDealer"
  /\ Len(dealerCards) >= 3


(***************************************************************************)
(* C27: getUpcard() is none for an empty dealer hand and otherwise the     *)
(* first card dealt to the dealer, and it is the same card after every     *)
(* later card appended to the hand.                                        *)
(***************************************************************************)
C27_UpcardIsFirstCard ==
  /\ [](IF dealerCards = << >> THEN getUpcard(dealerCards) = NULL
        ELSE getUpcard(dealerCards) = Head(dealerCards))
  /\ [][(dealerCards # << >> /\ \E card \in CardRank : dealerCards' = Append(dealerCards, card))
          => getUpcard(dealerCards') = getUpcard(dealerCards)]_vars

\* a hand of three cards whose last card differs from the first
C27_Witness ==
  /\ Len(dealerCards) = 3
  /\ dealerCards[3] # dealerCards[1]
  /\ getUpcard(dealerCards) = dealerCards[1]


(***************************************************************************)
(* C28 as claimed: a hand's value never decreases as cards are appended:   *)
(* for every hand and every card the value after adding the card is at     *)
(* least the value before.                                                 *)
(***************************************************************************)
C28_ValueNeverDecreases ==
  [][ParticipantAddCard =>
       getCardTotal(dealerCards').value >= getCardTotal(dealerCards).value]_vars

\* C28 (amended): the value never decreases when a card is appended to a hand that
\* has no ace counted as 11; a soft hand's value can drop, by at most 9, when the new
\* card makes its ace count as 1; and the total with every ace counted as 1 grows
\* with every card.
C28_ValueMonotoneUnlessSoft ==
  [][ParticipantAddCard =>
       /\ ~getCardTotal(dealerCards).hasSoftAce =>
            getCardTotal(dealerCards').value >= getCardTotal(dealerCards).value
       /\ getCardTotal(dealerCards').value >= getCardTotal(dealerCards).value - 9
       /\ HardTotal(dealerCards') > HardTotal(dealerCards)]_vars

\* a soft 17 (A, 6) took a 5 and is now a hard 12
C28_Witness ==
  /\ dealerCards = <<"A", "6", "5">>
  /\ getCardTotal(dealerCards).value = 12
  /\ getCardTotal(SubSeq(dealerCards, 1, 2)).value = 17


(***************************************************************************)
(* C29 as claimed: the hands are empty at the start of each round: from    *)
(* the end of a round until the next deal, and when dealInitialCards is    *)
(* called, neither hand holds a card.                                      *)
(***************************************************************************)
C29_HandsEmptyBeforeDeal ==
  (proc = "running" /\ gameState \in {"BET_BEFORE_ROUND", "INITIAL_ROUND"}) =>
    (playerCards = << >> /\ dealerCards = << >>)

\* C29 (amended): nobody clears the hands between rounds: they keep the previous
\* round's cards through ROUND_END and the betting state, and a successful
\* dealInitialCards replaces them, so that after the deal the two hands hold exactly
\* the cards that left the shoe in this deal.
C29_DealReplacesHands ==
  [][/\ (proc = "running" /\ gameState \in {"ROUND_END", "BET_BEFORE_ROUND"}) =>
          UNCHANGED <<playerCards, dealerCards>>
     /\ (proc = "running" /\ gameState = "INITIAL_ROUND" /\ thrown' = << >>) =>
          Len(playerCards') + Len(dealerCards') = source - source']_vars

\* a second round was dealt: the hands hold the four cards of this deal, and the
\* stake and save of the earlier round are on record
C29_Witness ==
  /\ proc = "running" /\ gameState = "PLAYER_TURN"
  /\ store.issued # NoSave
  /\ Len(playerCards) = 2 /\ Len(dealerCards) = 2
  /\ deckManager.remaining = ShoeSize - 4


(***************************************************************************)
(* C30: after every successful drawCard, drawCards(n) and reshuffle,       *)
(* remaining is the count the card source reported for that request;       *)
(* drawCards returns the delivered cards in the source's order and         *)
(* succeeds whether or not their number is n.                              *)
(***************************************************************************)
C30_RemainingIsReportedCount ==
  [][\A n \in ReportedCounts \cup {source} :
       /\ \A cs \in [1..Len(returned') -> MockCards] :
            LET resp == [success |-> TRUE, cards |-> cs, remaining |-> n]
            IN  /\ (Len(cs) = 1 /\ DeckDrawCardWith(resp)) => deckManager'.remaining = n
                /\ DeckDrawCardsWith(resp) =>
                     /\ thrown' = << >>
                     /\ returned' = cs
                     /\ deckManager'.remaining = n
       /\ DeckReshuffleWith([success |-> TRUE, remaining |-> n]) =>
            (thrown' = << >> /\ deckManager'.remaining = n)]_vars

\* drawCards(2) was answered with three cards, in this order, and a reported count
\* below the cut card of the 312-card shoe: it succeeded and took the count
C30_Witness ==
  /\ source = 312
  /\ thrown = << >>
  /\ returned = <<"A", "8", "A">>
  /\ deckManager.remaining = 69



\* a card left the shoe and the operation that drew it did not throw
DrewOne == source' = source - 1 /\ thrown' = << >>

\* hand' is hand with one card put at its end
AppendsOne(hand, handAfter) ==
  /\ Len(handAfter) = Len(hand) + 1
  /\ SubSeq(handAfter, 1, Len(hand)) = hand

(***************************************************************************)
(* C31: a successful hitPlayer appends exactly one card at the end of the  *)
(* player's hand and leaves the cards already there, the dealer's hand,    *)
(* the balance, the stake and the outcome as they were; a successful       *)
(* dealer draw does the same for the dealer's hand and leaves the player's *)
(* hand as it was.                                                         *)
(***************************************************************************)
C31_HitAppendsOneCard ==
  [][/\ (gameState = "PLAYER_TURN" /\ DrewOne) =>
          /\ AppendsOne(playerCards, playerCards')
          /\ UNCHANGED <<dealerCards, balance, bet, outcome>>
     /\ (gameState = "DEALER_TURN" /\ DrewOne) =>
          /\ AppendsOne(dealerCards, dealerCards')
          /\ UNCHANGED <<playerCards, balance, bet, outcome>>]_vars

\* both hands have taken a third card, the player's of a rank its first card is not
C31_Witness ==
  /\ gameState = "DEALER_TURN" /\ thrown = << >>
  /\ Len(playerCards) = 3 /\ playerCards[3] # playerCards[1]
  /\ Len(dealerCards) = 3



\* the chain handleError printed is the chain thrown, as it is or under one more message
ReportedThrown ==
  \E k \in {0, 1} :
    /\ Len(reported) = Len(thrown) + k
    /\ SubSeq(reported, k + 1, Len(reported)) = thrown

(***************************************************************************)
(* C32: whenever an engine operation fails in any game state, the App      *)
(* reports the error chain and the session terminates: no engine           *)
(* operation, prompt or state transition happens after the failure.        *)
(***************************************************************************)
C32_FailureEndsSession ==
  /\ [](thrown # << >> => (proc = "exited" /\ ReportedThrown))
  /\ [][(proc = "exited" => UNCHANGED vars)
        /\ (thrown' # << >> => proc' = "exited")]_vars

\* the dealer's draw failed in the dealer's turn and its whole chain was printed
C32_Witness ==
  /\ proc = "exited" /\ gameState = "DEALER_TURN"
  /\ Len(thrown) = 6 /\ reported = thrown



\* the hand with its cards in the places p gives them
Permuted(cards, p) == [i \in 1..Len(cards) |-> cards[p[i]]]

\* the place of a rank in RankOrder
RankIndex(rank) == CHOOSE i \in 1..Len(RankOrder) : RankOrder[i] = rank

\* the hand lists its cards by rising place in RankOrder: of all the orders of
\* the same cards, the one that stands for them
InRankOrder(cards) ==
  \A i \in 1..(Len(cards) - 1) : RankIndex(cards[i]) <= RankIndex(cards[i + 1])

(***************************************************************************)
(* C33: the hand total does not depend on the order of the cards: for      *)
(* every hand and every permutation of it, getCardTotal returns the same   *)
(* value and the same hasSoftAce.  Every order of every hand is a state,   *)
(* and each is a permutation of the hand in rank order, so it is stated    *)
(* of all the permutations of the hands in rank order.                     *)
(***************************************************************************)
C33_TotalIsOrderIndependent ==
  InRankOrder(dealerCards) =>
    \A p \in Permutations(1..Len(dealerCards)) :
      getCardTotal(Permuted(dealerCards, p)) = getCardTotal(dealerCards)

\* a soft hand of three different cards with the ace first
C33_Witness ==
  /\ dealerCards = <<"A", "3", "7">>
  /\ InRankOrder(dealerCards)
  /\ getCardTotal(dealerCards) = [value |-> 21, hasSoftAce |-> TRUE]



\* the request for cards the pass of the switch makes next asks for this many
CardsAsked ==
  IF proc # "running" THEN 0
  ELSE IF gameState = "INITIAL_ROUND" THEN 4
  ELSE IF gameState = "PLAYER_TURN" /\ ~hasBlackjack(playerCards) /\ ~hasBlackjack(dealerCards)
  THEN 1
  ELSE IF gameState = "DEALER_TURN" /\ shouldHit(dealerCards) THEN 1
  ELSE 0

(***************************************************************************)
(* C34: with the default six-deck shoe (312 cards, cut card at 70) and a   *)
(* card source that reports its counts as they are, the shoe never runs    *)
(* out during a round: every draw request of the round finds at least as   *)
(* many cards in the shoe as it asks for, whatever the player chooses.     *)
(***************************************************************************)
C34_ShoeNeverRunsOut ==
  /\ deckManager.remaining = source
  /\ source >= CardsAsked

\* the round that began at the cut card is in the dealer's turn, both hands have
\* taken cards beyond the deal, and the dealer must draw again
C34_Witness ==
  /\ proc = "running" /\ gameState = "DEALER_TURN"
  /\ Len(playerCards) >= 4 /\ Len(dealerCards) >= 3
  /\ CardsAsked = 1
  /\ deckManager.cutCardPosition = 70
  /\ source < 70 - 7



(***************************************************************************)
(* C35: at every initial deal of the App remaining >= cutCardPosition: a   *)
(* round never starts on a shoe that is past the cut card, the card source *)
(* restoring the full count on reshuffle.                                  *)
(***************************************************************************)
C35_RoundStartsAboveCutCard ==
  (proc = "running" /\ gameState \in {"BET_BEFORE_ROUND", "INITIAL_ROUND"}) =>
    /\ deckManager.exists
    /\ deckManager.remaining >= deckManager.cutCardPosition

\* a later round is about to be dealt from the shoe refilled after the round before
\* had drawn it down past the cut card
C35_Witness ==
  /\ proc = "running" /\ gameState = "INITIAL_ROUND"
  /\ Len(playerCards) >= 2 /\ Len(playerCards) + Len(dealerCards) = ShoeSize
  /\ deckManager.remaining = ShoeSize



(***************************************************************************)
(* C36: if after the initial deal the player has blackjack, no hit/stand   *)
(* choice is offered and the round goes to the dealer's turn; if the       *)
(* dealer has blackjack and the player has not, no choice is offered, no   *)
(* further card is drawn and the round goes directly to round end; in both *)
(* cases the player's hand has exactly two cards when the outcome is       *)
(* evaluated.                                                              *)
(***************************************************************************)
C36_BlackjackSkipsChoice ==
  /\ []((proc = "running" /\ gameState = "PLAYER_TURN" /\ IsBlackjack(dealerCards)) =>
          Len(playerCards) = 2)
  /\ [][/\ (gameState = "PLAYER_TURN" /\ IsBlackjack(playerCards)) =>
             /\ gameState' = "DEALER_TURN" /\ proc' = "running"
             /\ UNCHANGED <<playerCards, dealerCards, source>>
        /\ (gameState = "PLAYER_TURN" /\ ~IsBlackjack(playerCards) /\ IsBlackjack(dealerCards)) =>
             /\ gameState' = "ROUND_END" /\ proc' = "running"
             /\ UNCHANGED <<playerCards, dealerCards, source>>
        /\ gameState \in {"DEALER_TURN", "ROUND_END"} => UNCHANGED playerCards
        /\ (gameState = "ROUND_END" /\ awaiting = "none") =>
             UNCHANGED <<dealerCards, source>>]_vars

\* the dealer's blackjack against a player's two cards that are none was evaluated
\* with the four cards of the deal the only ones drawn
C36_Witness ==
  /\ gameState = "ROUND_END" /\ outcome = DealerWonWithBlackjack
  /\ IsBlackjack(dealerCards) /\ ~IsBlackjack(playerCards)
  /\ Len(playerCards) = 2
  /\ source = ShoeSize - 4



\* this step is the one in which the outcome of the round is evaluated
Evaluates == gameState = "ROUND_END" /\ awaiting = "none"

(***************************************************************************)
(* C37: in every round run by the App exactly one bet is placed, before    *)
(* any card of the round is dealt; the outcome is evaluated exactly once,  *)
(* after the dealer's last draw; and the payout is credited to the balance *)
(* exactly once per round.                                                 *)
(***************************************************************************)
C37_OnceEachRound ==
  [][\* the balance falls only by the bet that starts the round, and no card moves then
     /\ balance' < balance =>
          /\ gameState = "BET_BEFORE_ROUND" /\ gameState' = "INITIAL_ROUND"
          /\ bet' = balance - balance' /\ bet' > 0
          /\ UNCHANGED <<source, playerCards, dealerCards>>
     \* a round starts only with that bet, and cards are dealt only in a round
     /\ (gameState # "INITIAL_ROUND" /\ gameState' = "INITIAL_ROUND") => balance' < balance
     /\ source' < source => gameState \in {"INITIAL_ROUND", "PLAYER_TURN", "DEALER_TURN"}
     \* the outcome is set only by the evaluation, which credits the payout
     /\ Evaluates => /\ outcome = NULL /\ outcome' \in Outcome
                     /\ balance' = balance + winnings'
                     /\ UNCHANGED <<playerCards, dealerCards, bet, source>>
     /\ (outcome' # NULL /\ outcome' # outcome) => Evaluates
     \* after it the round is left with no further credit, draw or evaluation
     /\ (gameState = "ROUND_END" /\ ~Evaluates) =>
          /\ outcome # NULL
          /\ gameState' # "ROUND_END"
          /\ UNCHANGED <<balance, playerCards, dealerCards>>
     \* the balance rises only by the payout or by a deposit
     /\ balance' > balance => (Evaluates \/ (gameState = "BET_BEFORE_ROUND" /\ balance = 0))
    ]_vars

\* a round staked with the whole balance of one unit was won after the dealer drew:
\* stake and profit were credited, once
C37_Witness ==
  /\ gameState = "ROUND_END" /\ awaiting = "promptPlayAgain"
  /\ outcome = PlayerWon /\ bet = Unit /\ winnings = 2 * Unit
  /\ Len(dealerCards) >= 3
  /\ balance = 2 * Unit



(***************************************************************************)
(* C38: the player's balance is never negative in any reachable state of   *)
(* the App, over any sequence of rounds, outcomes and deposits, the bets   *)
(* passing the bet prompt's validation (0 < bet <= balance) and the        *)
(* deposits being positive.                                                *)
(***************************************************************************)
C38_BalanceNeverNegative == balance >= 0

\* the whole balance was staked and the round lost: nothing is left, and nothing owed
C38_Witness ==
  /\ gameState = "ROUND_END" /\ awaiting = "promptPlayAgain"
  /\ outcome = DealerWon /\ bet = Unit /\ winnings = 0
  /\ balance = 0



\* the whole-number bets from 1 up to the balance
WholeBets == {Unit * k : k \in 1..(balance \div Unit)}

(***************************************************************************)
(* C39: the betting state can always make progress: wherever the App is    *)
(* about to ask for a bet, either the balance is 0 and a deposit is        *)
(* offered, or there is a whole-number bet between 1 and the balance that  *)
(* the bet prompt accepts; the player is never left with a positive        *)
(* balance on which no bet is accepted and no deposit offered.             *)
(***************************************************************************)
C39_BettingCanProgress ==
  (proc = "running" /\ gameState = "BET_BEFORE_ROUND") =>
    \/ balance = 0
    \/ \E b \in WholeBets : validBet(b, balance)



(***************************************************************************)
(* C40: when the session has ended normally (state EXIT) and every save    *)
(* that was issued has completed, the balance the store holds for the      *)
(* player equals the player's balance in memory, although the save issued  *)
(* after each payout is not awaited and can be on its way while later game *)
(* actions and later saves run.  Stated for the sessions none of whose     *)
(* saves was rejected.                                                     *)
(***************************************************************************)
C40_StoreMatchesAtExit ==
  (/\ proc = "returned" /\ gameState = "EXIT"
   /\ store.inFlight = << >> /\ store.unhandled = << >>) =>
    store.saved = balance

====
